---- MODULE Spec2Model ----
(***************************************************************************)
(* Model of the DVLA-to-vehicle-icon pipeline of control_room:             *)
(*   scripts/crossref_dvla_vehicle_icons.py   (tokenizer, scorer,          *)
(*                                             classifier)                 *)
(*   scripts/build_dvla_vehicle_icon_lookup.py (weighted lookup builder)   *)
(*                                                                         *)
(* Text is a sequence of one-character strings, a token is a text of       *)
(* [a-z0-9] characters, so that tokenizing, joining and aliasing are       *)
(* computed the way the scripts compute them.                              *)
(*                                                                         *)
(* Real numbers are fixed-point integers:                                  *)
(*   a sub-score (token overlap, year score) is counted in 1/SubUnit,      *)
(*   a matcher score in 1/ScoreOne (ScoreOne = 100 * SubUnit), which is    *)
(*   exact for every query of at most 6 distinct tokens and every year     *)
(*   gap; the lookup builder's scores are counted in 1/LScoreOne and its   *)
(*   weights in 1/LScoreOne, score_weight in 1/LScoreOne^2.                *)
(* Python's None is <<>> and a present value v is <<v>>.                   *)
(***************************************************************************)
EXTENDS Integers, Sequences, FiniteSets, TLC

VARIABLES
    fn, arg, ret,                         \* a call of one pure function
    icons, variant, candidates, cand_i,   \* crossref main(): one variant's pass
    best_score, best_icon, best_parts,
    status, mpc, fleet, vi, results,
    coverage_json, missing, weak, covered, \* its report: the JSON, the three CSVs
    missing_top,                          \* and the shortlist
    dvla_csv, agg, ai,                    \* iter_dvla_variants(): rows, table, row read
    covered_csv, weak_csv,                \* lookup builder: the two input files
    by_make_year, by_make_default,        \* its tables
    rows_used, used_covered, used_weak,
    cursor, lpc,                          \* row being read, phase of main()
    clock, out_json,                      \* wall clock, lookups written
    station_loaded, station_items,        \* dev_server: _station_catalog_cache
    raildata_token,                       \* _raildata_auth_cache["token"]
    env_token, env_creds,                 \* RAILDATA_AUTH_TOKEN, _USERNAME/_PASSWORD
    thr,                                  \* the request handler threads
    upstream_log                          \* the requests sent upstream

fnVars == <<fn, arg, ret>>
reportVars == <<coverage_json, missing, weak, covered, missing_top>>
aggVars == <<dvla_csv, agg, ai>>
serverVars == <<station_loaded, station_items, raildata_token, env_token,
                env_creds, thr, upstream_log>>
mainVars == <<icons, variant, candidates, cand_i, best_score, best_icon,
              best_parts, status, mpc, fleet, vi, results, reportVars, aggVars,
              serverVars>>
lookupVars == <<covered_csv, weak_csv, by_make_year, by_make_default,
                rows_used, used_covered, used_weak, cursor, lpc, clock, out_json>>
vars == <<fnVars, mainVars, lookupVars>>

None == <<>>
Some(v) == <<v>>

(***************************************************************************)
(* Bounds of the model                                                     *)
(***************************************************************************)
MaxKeyTokens == 3
MaxListLen == 3
MaxWords == 2

(***************************************************************************)
(* Characters                                                              *)
(***************************************************************************)
LowerLetters == <<"a","b","c","d","e","f","g","h","i","j","k","l","m","n","o","p","q","r","s","t","u","v","w","x","y","z">>
UpperLetters == <<"A","B","C","D","E","F","G","H","I","J","K","L","M","N","O","P","Q","R","S","T","U","V","W","X","Y","Z">>
DigitChars == <<"0","1","2","3","4","5","6","7","8","9">>

IndexOf(seq, c) ==
    IF \E i \in 1..Len(seq) : seq[i] = c
    THEN CHOOSE i \in 1..Len(seq) : seq[i] = c
    ELSE 0

\* str.lower() on one character (ASCII letters; every other character of the
\* model has no lower-case form)
ToLowerChar(c) ==
    LET i == IndexOf(UpperLetters, c)
    IN  IF i > 0 THEN LowerLetters[i] ELSE c

Lower(text) == [i \in 1..Len(text) |-> ToLowerChar(text[i])]

IsDigitChar(c) == IndexOf(DigitChars, c) > 0
DigitVal(c) == IndexOf(DigitChars, c) - 1

\* the regex class [a-z0-9]
IsTokenChar(c) == IndexOf(LowerLetters, c) > 0 \/ IsDigitChar(c)

\* the regex class \s and what str.strip() strips
IsSpaceChar(c) == c \in {" ", "\t"}

(***************************************************************************)
(* normalize_space, tokenize                                               *)
(***************************************************************************)
RECURSIVE LStrip(_)
LStrip(text) ==
    IF text # <<>> /\ IsSpaceChar(text[1]) THEN LStrip(Tail(text)) ELSE text

RECURSIVE RStrip(_)
RStrip(text) ==
    IF text # <<>> /\ IsSpaceChar(text[Len(text)])
    THEN RStrip(SubSeq(text, 1, Len(text) - 1))
    ELSE text

Strip(text) == RStrip(LStrip(text))

\* re.sub(r"\s+", " ", text): every maximal run of whitespace becomes one space
\* (the first character of a run is kept, as a space; the others are dropped)
CollapseSpace(text) ==
    LET marked == [i \in 1..Len(text) |->
                     IF ~IsSpaceChar(text[i]) THEN <<text[i]>>
                     ELSE IF i > 1 /\ IsSpaceChar(text[i - 1]) THEN <<>>
                     ELSE <<" ">>]
        Kept(m) == m # <<>>
        kept == SelectSeq(marked, Kept)
    IN  [i \in 1..Len(kept) |-> kept[i][1]]

normalize_space(text) == CollapseSpace(Strip(text))

\* re.findall(r"[a-z0-9]+", s): the maximal runs of token characters, in order
FindTokens(s) ==
    LET IsStart(i) == IsTokenChar(s[i]) /\ (i = 1 \/ ~IsTokenChar(s[i - 1]))
        starts == SelectSeq([i \in 1..Len(s) |-> i], IsStart)
        EndOf(i) == CHOOSE j \in i..Len(s) :
                        /\ \A k \in i..j : IsTokenChar(s[k])
                        /\ (j = Len(s) \/ ~IsTokenChar(s[j + 1]))
    IN  [k \in 1..Len(starts) |-> SubSeq(s, starts[k], EndOf(starts[k]))]

tokenize(text) == FindTokens(Lower(normalize_space(text)))

\* sep.join(toks)
RECURSIVE Join(_, _)
Join(toks, sep) ==
    IF toks = <<>> THEN <<>>
    ELSE IF Len(toks) = 1 THEN toks[1]
         ELSE toks[1] \o sep \o Join(Tail(toks), sep)

SetOf(seq) == {seq[i] : i \in 1..Len(seq)}

\* f"{a} {b}"
Sp(a, b) == a \o <<" ">> \o b

(***************************************************************************)
(* Tables of crossref_dvla_vehicle_icons.py                                *)
(***************************************************************************)
MAKE_ALIAS == <<
    <<<<"m","e","r","c","e","d","e","s"," ","b","e","n","z">>, <<"m","e","r","c","e","d","e","s">>>>,
    <<<<"m","e","r","c","e","d","e","s","-","b","e","n","z">>, <<"m","e","r","c","e","d","e","s">>>>,
    <<<<"m","e","r","c","e","d","e","s"," ","a","m","g">>, <<"m","e","r","c","e","d","e","s">>>>,
    <<<<"a","m","g"," ","m","e","r","c","e","d","e","s">>, <<"m","e","r","c","e","d","e","s">>>>,
    <<<<"a","l","f","a"," ","r","o","m","e","o">>, <<"a","l","f","a"," ","r","o","m","e","o">>>>,
    <<<<"l","a","n","d"," ","r","o","v","e","r">>, <<"l","a","n","d"," ","r","o","v","e","r">>>>,
    <<<<"r","a","n","g","e"," ","r","o","v","e","r">>, <<"l","a","n","d"," ","r","o","v","e","r">>>>,
    <<<<"a","s","t","o","n"," ","m","a","r","t","i","n">>, <<"a","s","t","o","n"," ","m","a","r","t","i","n">>>>,
    <<<<"r","o","l","l","s"," ","r","o","y","c","e">>, <<"r","o","l","l","s"," ","r","o","y","c","e">>>>,
    <<<<"v","a","u","x","h","a","l","l">>, <<"v","a","u","x","h","a","l","l">>>>,
    <<<<"v","w">>, <<"v","o","l","k","s","w","a","g","e","n">>>> >>

RACE_TOKENS == {
    <<"r","a","c","e">>, <<"r","a","c","i","n","g">>, <<"r","a","l","l","y">>, <<"t","o","u","r","i","n","g">>, <<"g","t","3">>, <<"g","t","4">>,
    <<"g","r","3">>, <<"g","r","4">>, <<"f","o","r","m","u","l","a">>, <<"n","a","s","c","a","r">>, <<"l","m">>, <<"l","e","m","a","n","s">>,
    <<"v","i","s","i","o","n">>, <<"c","o","n","c","e","p","t">>, <<"p","r","o","t","o","t","y","p","e">>, <<"d","r","i","f","t">>, <<"s","u","p","e","r","g","t">>,
    <<"j","g","t","c">>, <<"p","i","k","e","s">>, <<"f","1">> }

CLASS_STOPWORDS == {
    <<"a","n","d">>, <<"t","h","e">>, <<"a","u","t","o">>, <<"a","u","t","o","m","a","t","i","c">>, <<"m","a","n","u","a","l">>, <<"d","i","e","s","e","l">>,
    <<"p","e","t","r","o","l">>, <<"h","y","b","r","i","d">>, <<"e","v">>, <<"e","l","e","c","t","r","i","c">>, <<"s","e">>, <<"s","e","l">>,
    <<"s","p","o","r","t">>, <<"l","i","n","e">>, <<"p","r","e","m","i","u","m">>, <<"a","m","g">>, <<"e","d","i","t","i","o","n">>, <<"i","s","g">>,
    <<"h","e","v">>, <<"p","h","e","v">>, <<"a","w","d">>, <<"f","w","d">>, <<"r","w","d">>, <<"c","d","i">>, <<"t","s","i">>,
    <<"t","d","i">>, <<"d">>, <<"t">>, <<"s">> }

InAlias(table, k) == \E i \in 1..Len(table) : table[i][1] = k
AliasOf(table, k) == table[CHOOSE i \in 1..Len(table) : table[i][1] = k][2]

(***************************************************************************)
(* canonical_make                                                          *)
(***************************************************************************)
canonical_make_without_alias(text) == Join(tokenize(text), <<" ">>)

canonical_make(text) ==
    LET toks == tokenize(text)
        joined == Join(toks, <<" ">>)
        two == Join(SubSeq(toks, 1, 2), <<" ">>)
    IN  IF toks = <<>> THEN <<>>
        ELSE IF InAlias(MAKE_ALIAS, joined) THEN AliasOf(MAKE_ALIAS, joined)
        ELSE IF Len(toks) >= 2 /\ InAlias(MAKE_ALIAS, two)
             THEN AliasOf(MAKE_ALIAS, two)
        ELSE joined

(***************************************************************************)
(* parse_int_like: int(float(s)) for the numerals [+-]digits[.digits];     *)
(* every other text of the model's alphabet makes float() raise, which the *)
(* function turns into 0.  (Exponents, "_" digit separators, inf and nan   *)
(* are not among the model's inputs.)                                      *)
(***************************************************************************)
AllDigits(t) == \A i \in 1..Len(t) : IsDigitChar(t[i])

RECURSIVE IntOf(_)
IntOf(t) == IF t = <<>> THEN 0
            ELSE 10 * IntOf(SubSeq(t, 1, Len(t) - 1)) + DigitVal(t[Len(t)])

\* the numeral without its sign: digits, digits. , digits.digits , .digits
IsUnsignedNumeral(u) ==
    LET dot == IndexOf(u, ".")
        ip == IF dot = 0 THEN u ELSE SubSeq(u, 1, dot - 1)
        fp == IF dot = 0 THEN <<>> ELSE SubSeq(u, dot + 1, Len(u))
    IN  /\ AllDigits(ip) /\ AllDigits(fp)
        /\ Len(ip) + Len(fp) > 0

UnsignedIntPart(u) ==
    LET dot == IndexOf(u, ".")
    IN  IntOf(IF dot = 0 THEN u ELSE SubSeq(u, 1, dot - 1))

parse_int_like(text) ==
    LET s == Strip(text)
        neg == s # <<>> /\ s[1] = "-"
        u == IF s # <<>> /\ s[1] \in {"-", "+"} THEN Tail(s) ELSE s
    IN  IF s = <<>> \/ s[1] = "[" THEN 0
        ELSE IF IsUnsignedNumeral(u)
             THEN (IF neg THEN 0 - UnsignedIntPart(u) ELSE UnsignedIntPart(u))
        ELSE 0

(***************************************************************************)
(* year_from_key                                                           *)
(***************************************************************************)
IsFullYear(t) ==
    Len(t) = 4 /\ AllDigits(t) /\ 1900 <= IntOf(t) /\ IntOf(t) <= 2030

PivotWrong(y) == IF y > 70 THEN 1900 + y ELSE 2000 + y
Pivot(y) == IF y >= 70 THEN 1900 + y ELSE 2000 + y

year_from_key(key) ==
    LET toks == tokenize(key)
        years == SelectSeq(toks, IsFullYear)
        last == toks[Len(toks)]
    IN  IF toks = <<>> THEN None
        ELSE IF years # <<>> THEN Some(IntOf(years[Len(years)]))
        ELSE IF Len(last) = 2 /\ AllDigits(last) THEN Some(Pivot(IntOf(last)))
        ELSE None

(***************************************************************************)
(* overlap_score, in 1/SubUnit                                             *)
(***************************************************************************)
SubUnit == 60

Max(a, b) == IF a >= b THEN a ELSE b
Min(a, b) == IF a <= b THEN a ELSE b
Abs(a) == IF a < 0 THEN 0 - a ELSE a

overlap_score_by_len(query_tokens, target_tokens) ==
    IF query_tokens = <<>> \/ target_tokens = <<>> THEN 0
    ELSE (SubUnit * Cardinality(SetOf(query_tokens) \cap SetOf(target_tokens)))
             \div Max(1, Len(query_tokens))

overlap_score(query_tokens, target_tokens) ==
    IF query_tokens = <<>> \/ target_tokens = <<>> THEN 0
    ELSE LET q == SetOf(query_tokens)
             t == SetOf(target_tokens)
         IN  (SubUnit * Cardinality(q \cap t)) \div Max(1, Cardinality(q))

(***************************************************************************)
(* looks_race_or_special                                                   *)
(***************************************************************************)
looks_race_or_special(tokens) ==
    LET t == SetOf(tokens)
    IN  \/ t \cap RACE_TOKENS # {}
        \/ \E tok \in t :
              /\ Len(tok) >= 2 /\ SubSeq(tok, 1, 2) = <<"g","r">>
              \* str.isdigit() of the rest: false for the empty string
              /\ Len(tok) > 2 /\ AllDigits(SubSeq(tok, 3, Len(tok)))

(***************************************************************************)
(* extract_family_tokens                                                   *)
(***************************************************************************)
RECURSIVE Dedup(_, _)
Dedup(out, seen) ==
    IF out = <<>> THEN <<>>
    ELSE IF out[1] \in seen THEN Dedup(Tail(out), seen)
         ELSE <<out[1]>> \o Dedup(Tail(out), seen \cup {out[1]})

extract_family_tokens_raw_make(make, genmodel, model) ==
    LET toks == tokenize(Sp(Sp(make, genmodel), model))
        make_toks == SetOf(tokenize(make))
        Keep(t) == ~(t \in make_toks \/ t \in CLASS_STOPWORDS) /\ ~(Len(t) <= 1)
        dedup == Dedup(SelectSeq(toks, Keep), {})
    IN  SubSeq(dedup, 1, Min(6, Len(dedup)))

extract_family_tokens(make, genmodel, model) ==
    LET toks == tokenize(Sp(Sp(make, genmodel), model))
        make_toks == SetOf(tokenize(canonical_make(make)))
        Keep(t) == ~(t \in make_toks \/ t \in CLASS_STOPWORDS) /\ ~(Len(t) <= 1)
        dedup == Dedup(SelectSeq(toks, Keep), {})
    IN  SubSeq(dedup, 1, Min(6, Len(dedup)))

(***************************************************************************)
(* load_icon_catalog: one catalog entry per vehicle_models key that has an *)
(* icon file <key>.png in ICON_DIR.  A raw entry of the model is           *)
(*   [key, has_png, manufacturer, model, label, year]                      *)
(* with label None when the JSON record has none, and year the text of     *)
(* specs["year"].                                                          *)
(***************************************************************************)
FirstWord(text) ==
    LET i == IndexOf(text, " ")
    IN  IF i = 0 THEN text ELSE SubSeq(text, 1, i - 1)

ICON_DIR_REL == <<"g","f","x","/","v","e","h","i","c","l","e","_","i","c","o","n","s","/","g","r","a","n","_","t","u","r","i","s","m","o","_","2","0","0","_","c","i","r","c","l","e","/">>

IconEntryOf(raw) ==
    LET icon_name == raw.key \o <<".","p","n","g">>
        manufacturer == normalize_space(raw.manufacturer)
        model == normalize_space(raw.model)
        label == normalize_space(IF raw.label = None THEN raw.key ELSE raw.label[1])
        make_text == IF manufacturer # <<>> THEN manufacturer ELSE FirstWord(label)
        make_can == canonical_make(make_text)
        model_text == IF model # <<>> THEN model ELSE label
        y == parse_int_like(raw.year)
    IN  [icon_file |-> icon_name,
         icon_path |-> ICON_DIR_REL \o icon_name,
         key |-> raw.key,
         label |-> label,
         make_canonical |-> make_can,
         make_tokens |-> tokenize(make_can),
         model_tokens |-> tokenize(Sp(Sp(model_text, label), raw.key)),
         year |-> IF y # 0 THEN Some(y) ELSE year_from_key(raw.key),
         family_tokens |-> extract_family_tokens(make_text, model, label),
         race_like |-> looks_race_or_special(
                           tokenize(Sp(Sp(raw.key, label), model_text)))]

RECURSIVE load_icon_catalog(_)
load_icon_catalog(vehicle_models) ==
    IF vehicle_models = <<>> THEN <<>>
    ELSE (IF vehicle_models[1].has_png
          THEN <<IconEntryOf(vehicle_models[1])>> ELSE <<>>)
         \o load_icon_catalog(Tail(vehicle_models))

(***************************************************************************)
(* classify, scores in 1/ScoreOne                                          *)
(***************************************************************************)
ScoreOne == 100 * SubUnit
MISSING_THRESHOLD == 18 * SubUnit
WEAK_THRESHOLD == 42 * SubUnit

classify_inclusive(score, has_make_candidates) ==
    IF ~has_make_candidates THEN "clearly_missing"
    ELSE IF score <= MISSING_THRESHOLD THEN "clearly_missing"
    ELSE IF score <= WEAK_THRESHOLD THEN "weak_match"
    ELSE "covered"

classify_by_presence(score, has_make_candidates) ==
    IF ~has_make_candidates THEN "clearly_missing"
    ELSE IF score < WEAK_THRESHOLD THEN "weak_match"
    ELSE "covered"

classify(score, has_make_candidates) ==
    IF ~has_make_candidates THEN "clearly_missing"
    ELSE IF score < MISSING_THRESHOLD THEN "clearly_missing"
    ELSE IF score < WEAK_THRESHOLD THEN "weak_match"
    ELSE "covered"

(***************************************************************************)
(* Inputs of the pure-function specifications                              *)
(***************************************************************************)
WordSeqs(vocab, n) == UNION {[1..k -> vocab] : k \in 0..n}

KeyVocab == { <<"s","u","p","r","a">>, <<"n","o">>, <<"x","2">>, <<"1","9","6","7">>, <<"2","0","3","0">>, <<"2","0","3","1">>,
              <<"1","8","9","9">>, <<"1","9","0","0">>, <<"0","2">>, <<"9","9">>, <<"7","0">>, <<"6","9">>,
              <<"7">>, <<"1","2","3">> }
KeyExamples == { <<"m","u","s","t","a","n","g","_","1","9","6","7">>, <<"s","u","p","r","a","_","0","2">>, <<"c","i","v","i","c","_","9","9">>,
                 <<"n","o","_","y","e","a","r","_","h","e","r","e">>, <<"S","u","p","r","a"," ","R","Z","-","1","9","9","7">>, <<"_">>,
                 <<"r","3","2","_","2","0","0","2","_","1","9","8","9","_","g","t","r">> }
KeyTexts ==
    {Join(ws, <<"_">>) : ws \in WordSeqs(KeyVocab, MaxKeyTokens)} \cup KeyExamples

ListVocab == { <<"a">>, <<"b">>, <<"c">> }
TokenLists == WordSeqs(ListVocab, MaxListLen)

LookupIdle ==
    /\ covered_csv = None /\ weak_csv = None
    /\ by_make_year = <<>> /\ by_make_default = <<>>
    /\ rows_used = 0 /\ used_covered = 0 /\ used_weak = 0
    /\ cursor = 0 /\ lpc = "idle" /\ clock = 0 /\ out_json = <<>>

ReportIdle ==
    /\ coverage_json = None /\ missing = None /\ weak = None /\ covered = None
    /\ missing_top = None

AggIdle == dvla_csv = <<>> /\ agg = <<>> /\ ai = 0

ServerIdle ==
    /\ station_loaded = FALSE /\ station_items = <<>>
    /\ raildata_token = <<>> /\ env_token = <<>> /\ env_creds = FALSE
    /\ thr = <<>> /\ upstream_log = <<>>

MatcherIdle ==
    /\ ReportIdle /\ AggIdle
    /\ icons = <<>> /\ variant = None /\ candidates = <<>> /\ cand_i = 0
    /\ best_score = 0 /\ best_icon = None /\ best_parts = None
    /\ status = "" /\ mpc = "idle" /\ fleet = <<>> /\ vi = 0 /\ results = <<>>

MainIdle == MatcherIdle /\ ServerIdle

(***************************************************************************)
(* SpecYear: year_from_key applied to a catalog key                        *)
(***************************************************************************)
InitYear == fn = "year_from_key" /\ arg \in KeyTexts /\ ret = None /\ MainIdle /\ LookupIdle

CallYearFromKey ==
    /\ fn = "year_from_key" /\ ret = None
    /\ ret' = Some(year_from_key(arg))
    /\ UNCHANGED <<fn, arg, mainVars, lookupVars>>

SpecYear == InitYear /\ [][CallYearFromKey]_vars

(***************************************************************************)
(* SpecOverlap: overlap_score applied to two token lists                   *)
(***************************************************************************)
InitOverlap ==
    /\ fn = "overlap_score" /\ arg \in TokenLists \X TokenLists
    /\ ret = None /\ MainIdle /\ LookupIdle

CallOverlapScore ==
    /\ fn = "overlap_score" /\ ret = None
    /\ ret' = Some(overlap_score(arg[1], arg[2]))
    /\ UNCHANGED <<fn, arg, mainVars, lookupVars>>

SpecOverlap == InitOverlap /\ [][CallOverlapScore]_vars

(***************************************************************************)
(* SpecClassify: classify applied to a score and the candidates flag       *)
(***************************************************************************)
InitClassify ==
    /\ fn = "classify" /\ arg \in (0..ScoreOne) \X BOOLEAN
    /\ ret = None /\ MainIdle /\ LookupIdle

CallClassify ==
    /\ fn = "classify" /\ ret = None
    /\ ret' = Some(classify(arg[1], arg[2]))
    /\ UNCHANGED <<fn, arg, mainVars, lookupVars>>

SpecClassify == InitClassify /\ [][CallClassify]_vars

(***************************************************************************)
(* C2: classify returns clearly_missing when there are no candidates or    *)
(* the score is below 0.18, weak_match when candidates exist and           *)
(* 0.18 <= score < 0.42, covered when candidates exist and score >= 0.42;  *)
(* score exactly 0.18 gives weak_match, exactly 0.42 gives covered, and    *)
(* the result is always one of the three statuses.                         *)
(***************************************************************************)
C2_ClassifyBands ==
    (fn = "classify" /\ ret # None) =>
        LET score == arg[1]
            has == arg[2]
            lo == (18 * ScoreOne) \div 100
            hi == (42 * ScoreOne) \div 100
        IN  /\ ret[1] \in {"clearly_missing", "weak_match", "covered"}
            /\ (ret[1] = "clearly_missing") <=> (~has \/ score < lo)
            /\ (ret[1] = "weak_match") <=> (has /\ lo <= score /\ score < hi)
            /\ (ret[1] = "covered") <=> (has /\ score >= hi)
            /\ (has /\ score = lo) => ret[1] = "weak_match"
            /\ (has /\ score = hi) => ret[1] = "covered"

C2_Witness ==
    /\ fn = "classify" /\ ret = Some("weak_match")
    /\ arg = <<(18 * ScoreOne) \div 100, TRUE>>

(***************************************************************************)
(* C6: year_from_key returns the last 4-digit token with value in          *)
(* [1900,2030] when there is one; otherwise, when the trailing token is    *)
(* exactly two digits v, 1900+v for v >= 70 and 2000+v for v < 70;         *)
(* otherwise none.  mustang_1967 -> 1967, supra_02 -> 2002,                *)
(* civic_99 -> 1999, no_year_here -> none; a result lies in [1900,2069].   *)
(***************************************************************************)
C6_YearFromKey ==
    (fn = "year_from_key" /\ ret # None) =>
        LET toks == tokenize(arg)
            full == {i \in 1..Len(toks) :
                        /\ Len(toks[i]) = 4 /\ AllDigits(toks[i])
                        /\ IntOf(toks[i]) \in 1900..2030}
            lastFull == CHOOSE i \in full : \A j \in full : j <= i
            tail == toks[Len(toks)]
            y == ret[1]
        IN  /\ full # {} => y = Some(IntOf(toks[lastFull]))
            /\ (full = {} /\ toks # <<>> /\ Len(tail) = 2 /\ AllDigits(tail)) =>
                   /\ IntOf(tail) >= 70 => y = Some(1900 + IntOf(tail))
                   /\ IntOf(tail) < 70 => y = Some(2000 + IntOf(tail))
            /\ (full = {} /\ (toks = <<>> \/ ~(Len(tail) = 2 /\ AllDigits(tail)))) =>
                   y = None
            /\ arg = <<"m","u","s","t","a","n","g","_","1","9","6","7">> => y = Some(1967)
            /\ arg = <<"s","u","p","r","a","_","0","2">> => y = Some(2002)
            /\ arg = <<"c","i","v","i","c","_","9","9">> => y = Some(1999)
            /\ arg = <<"n","o","_","y","e","a","r","_","h","e","r","e">> => y = None
            /\ y # None => y[1] \in 1900..2069

C6_Witness ==
    /\ fn = "year_from_key" /\ arg = <<"1","9","6","7","_","s","u","p","r","a","_","7","0">> /\ ret = Some(Some(1967))

(***************************************************************************)
(* C7: overlap_score(query, target) is |set(query) /\ set(target)| /       *)
(* |set(query)| when both lists are non-empty and 0 when either is empty;  *)
(* it is relative to the query's distinct tokens, hence asymmetric.        *)
(* overlap_score([], [a,b]) = 0, ([a,b],[a,b]) = 1, ([a,b],[a]) = 0.5.     *)
(***************************************************************************)
C7_OverlapScore ==
    (fn = "overlap_score" /\ ret # None) =>
        LET q == arg[1]
            t == arg[2]
            a == <<"a">>
            b == <<"b">>
        IN  /\ (q = <<>> \/ t = <<>>) => ret[1] = 0
            /\ (q # <<>> /\ t # <<>>) =>
                   ret[1] * Cardinality(SetOf(q))
                       = SubUnit * Cardinality(SetOf(q) \cap SetOf(t))
            /\ (q = <<>> /\ t = <<a, b>>) => ret[1] = 0
            /\ (q = <<a, b>> /\ t = <<a, b>>) => ret[1] = SubUnit
            /\ (q = <<a, b>> /\ t = <<a>>) => 2 * ret[1] = SubUnit
            /\ (q = <<a>> /\ t = <<a, b>>) => ret[1] = SubUnit

C7_Witness ==
    /\ fn = "overlap_score" /\ arg = << <<<<"a">>, <<"b">>, <<"a">>>>, <<<<"a">>>> >>
    /\ ret # None /\ 2 * ret[1] = SubUnit

(***************************************************************************)
(* SpecFamily: extract_family_tokens applied to (make, genmodel, model),   *)
(* and load_icon_catalog applied to a vehicle-specs database               *)
(***************************************************************************)
FamMakes == { <<>>, <<"M","e","r","c","e","d","e","s"," ","B","e","n","z">>, <<"M","E","R","C","E","D","E","S","-","B","E","N","Z">>, <<"V","W">>,
              <<"R","a","n","g","e"," ","R","o","v","e","r">>, <<"B","M","W">> }
FamVocab == { <<"E">>, <<"C","l","a","s","s">>, <<"G","o","l","f">>, <<"A","M","G">>, <<"B","e","n","z">>,
              <<"M","e","r","c","e","d","e","s">>, <<"R","o","v","e","r">>, <<"L","a","n","d">>, <<"V","o","l","k","s","w","a","g","e","n">> }
FamGenModels == {Join(ws, <<" ">>) : ws \in WordSeqs(FamVocab, MaxWords)}
FamModels == { <<>>, <<"E","2","2","0">>, <<"E","-","C","l","a","s","s"," ","E"," ","2","2","0"," ","d"," ","A","M","G"," ","L","i","n","e">>,
               <<"G","o","l","f"," ","G","T","I"," ","C","a","b","r","i","o","l","e","t"," ","T","o","u","r","i","n","g"," ","E","s","t","a","t","e"," ","C","o","u","p","e"," ","R","o","a","d","s","t","e","r"," ","G","o","l","f"," ","P","l","u","s">>,
               <<"G","O","L","F"," ","g","o","l","f"," "," ","G","o","l","f">>, <<"S">>, <<"B","e","n","z"," ","P","a","t","e","n","t"," ","M","o","t","o","r","w","a","g","e","n">>,
               <<"L","a","n","d"," "," ","R","o","v","e","r","\t","D","e","f","e","n","d","e","r"," ","9","0">> }

RawIcons == {
    [key |-> <<"m","e","r","c","e","d","e","s","_","e","_","c","l","a","s","s","_","2","0","1","5">>, has_png |-> TRUE,
     manufacturer |-> <<"M","e","r","c","e","d","e","s","-","B","e","n","z">>, model |-> <<"E","-","C","l","a","s","s">>,
     label |-> Some(<<"M","e","r","c","e","d","e","s","-","B","e","n","z"," ","E","-","C","l","a","s","s"," ","2","0","1","5">>), year |-> <<"2","0","1","5">>],
    [key |-> <<"v","w","_","g","o","l","f","_","g","t","i","_","0","2">>, has_png |-> TRUE,
     manufacturer |-> <<>>, model |-> <<>>,
     label |-> Some(<<"V","W"," ","G","o","l","f"," ","G","T","I"," ","'","0","2">>), year |-> <<>>],
    [key |-> <<"t","o","y","o","t","a","_","g","r","0","1","0","_","h","y","b","r","i","d","_","2","1">>, has_png |-> TRUE,
     manufacturer |-> <<"T","o","y","o","t","a">>, model |-> <<"G","R","0","1","0"," ","H","y","b","r","i","d">>,
     label |-> None, year |-> <<"[","u","n","k","n","o","w","n","]">>],
    [key |-> <<"r","a","n","g","e","_","r","o","v","e","r","_","e","v","o","q","u","e","_","1","3">>, has_png |-> TRUE,
     manufacturer |-> <<" ","L","a","n","d"," "," ","R","o","v","e","r"," ">>,
     model |-> <<"R","a","n","g","e"," ","R","o","v","e","r"," ","E","v","o","q","u","e"," ","C","o","u","p","e"," ","D","y","n","a","m","i","c">>,
     label |-> Some(<<"L","a","n","d"," ","R","o","v","e","r"," ","R","a","n","g","e"," ","R","o","v","e","r"," ","E","v","o","q","u","e"," ","C","o","u","p","e"," ","D","y","n","a","m","i","c"," ","L","u","x"," ","P","a","c","k"," ","B","l","a","c","k"," ","D","e","s","i","g","n">>),
     year |-> <<"2","0","1","3",".","0">>],
    [key |-> <<"m","e","r","c","e","d","e","s","_","a","m","g","_","g","t","3","_","1","8","9","0">>, has_png |-> TRUE,
     manufacturer |-> <<"M","e","r","c","e","d","e","s"," ","A","M","G">>, model |-> <<"A","M","G"," ","G","T","3">>,
     label |-> Some(<<"M","e","r","c","e","d","e","s","-","A","M","G"," ","G","T","3">>), year |-> <<"n","/","a">>],
    [key |-> <<"f","o","r","d","_","f","o","c","u","s","_","2","0","0","1">>, has_png |-> FALSE,
     manufacturer |-> <<"F","o","r","d">>, model |-> <<"F","o","c","u","s">>,
     label |-> Some(<<"F","o","r","d"," ","F","o","c","u","s">>), year |-> <<"2","0","0","1">>] }

RawCatalogsOf(raws, n) == {c \in WordSeqs(raws, n) :
                              \A i, j \in 1..Len(c) : c[i].key = c[j].key => i = j}

RawCatalogs(n) == RawCatalogsOf(RawIcons, n)

InitFamily ==
    /\ \/ /\ fn = "extract_family_tokens"
          /\ arg \in FamMakes \X FamGenModels \X FamModels
       \/ /\ fn = "load_icon_catalog"
          /\ arg \in RawCatalogs(MaxWords)
    /\ ret = None /\ MainIdle /\ LookupIdle

CallExtractFamilyTokens ==
    /\ fn = "extract_family_tokens" /\ ret = None
    /\ ret' = Some(extract_family_tokens(arg[1], arg[2], arg[3]))
    /\ UNCHANGED <<fn, arg, mainVars, lookupVars>>

CallLoadIconCatalog ==
    /\ fn = "load_icon_catalog" /\ ret = None
    /\ ret' = Some(load_icon_catalog(arg))
    /\ UNCHANGED <<fn, arg, mainVars, lookupVars>>

NextFamily == CallExtractFamilyTokens \/ CallLoadIconCatalog

SpecFamily == InitFamily /\ [][NextFamily]_vars

(***************************************************************************)
(* C5: extract_family_tokens returns at most 6 tokens, without a duplicate *)
(* token, without a token of the canonicalized-make token set and without  *)
(* a stopword, the surviving tokens in first-seen order; hence so is the   *)
(* family_tokens of every IconEntry the catalog loader builds.             *)
(***************************************************************************)
FirstIndex(toks, t) == CHOOSE i \in 1..Len(toks) :
                           toks[i] = t /\ \A j \in 1..(i - 1) : toks[j] # t

FamilyShape(ft, make_toks) ==
    /\ Len(ft) <= 6
    /\ \A i, j \in 1..Len(ft) : ft[i] = ft[j] => i = j
    /\ \A i \in 1..Len(ft) : ft[i] \notin SetOf(make_toks)
    /\ \A i \in 1..Len(ft) : ft[i] \notin CLASS_STOPWORDS

C5_FamilyTokens ==
    /\ (fn = "extract_family_tokens" /\ ret # None) =>
          LET ft == ret[1]
              toks == tokenize(Sp(Sp(arg[1], arg[2]), arg[3]))
          IN  /\ FamilyShape(ft, tokenize(canonical_make(arg[1])))
              /\ \A i \in 1..Len(ft) : ft[i] \in SetOf(toks)
              /\ \A i, j \in 1..Len(ft) :
                     i < j => FirstIndex(toks, ft[i]) < FirstIndex(toks, ft[j])
    /\ (fn = "load_icon_catalog" /\ ret # None) =>
          \A k \in 1..Len(ret[1]) :
              FamilyShape(ret[1][k].family_tokens, ret[1][k].make_tokens)

\* a call with a make token, a stopword, a duplicate and more than 6 survivors
C5_Witness ==
    /\ fn = "extract_family_tokens" /\ ret # None
    /\ arg = <<<<"V","W">>, <<"V","o","l","k","s","w","a","g","e","n"," ","A","M","G">>,
               <<"G","o","l","f"," ","G","T","I"," ","C","a","b","r","i","o","l","e","t"," ","T","o","u","r","i","n","g"," ","E","s","t","a","t","e"," ","C","o","u","p","e"," ","R","o","a","d","s","t","e","r"," ","G","o","l","f"," ","P","l","u","s">>>>
    /\ ret[1] = <<<<"v","w">>, <<"g","o","l","f">>, <<"g","t","i">>, <<"c","a","b","r","i","o","l","e","t">>, <<"t","o","u","r","i","n","g">>,
                  <<"e","s","t","a","t","e">>>>

(***************************************************************************)
(* score_variant_to_icon: the score in 1/ScoreOne, the five sub-scores in  *)
(* 1/SubUnit.  A variant is [make, genmodel, model, year, fleet_estimate]. *)
(***************************************************************************)
Truthy(y) == y # None /\ y[1] # 0

clamp_upper_only(score) == Min(ScoreOne, score)

Clamp01(score) == Max(0, Min(ScoreOne, score))

score_variant_to_icon_unclamped(v, icon) ==
    LET make_score == overlap_score(tokenize(canonical_make(v.make)),
                                    icon.make_tokens)
        gen_score == overlap_score(tokenize(v.genmodel), icon.model_tokens)
        model_score == overlap_score(tokenize(v.model), icon.model_tokens)
        family_score == overlap_score(
                            extract_family_tokens(v.make, v.genmodel, v.model),
                            icon.family_tokens)
        both == v.year # 0 /\ Truthy(icon.year)
        year_score == IF both
                      THEN Max(0, SubUnit - (SubUnit * Abs(v.year - icon.year[1])) \div 15)
                      ELSE SubUnit \div 4
        weighted == 42 * make_score + 28 * family_score + 15 * gen_score
                        + 10 * model_score + 5 * year_score
        race == IF icon.race_like
                   /\ ~looks_race_or_special(tokenize(Sp(v.genmodel, v.model)))
                THEN 16 * SubUnit ELSE 0
        gap == IF both /\ Abs(v.year - icon.year[1]) > 20 THEN 8 * SubUnit ELSE 0
    IN  [score |-> weighted - race - gap,
         parts |-> [make |-> make_score, family |-> family_score,
                    genmodel |-> gen_score, model |-> model_score,
                    year |-> year_score]]

score_variant_to_icon_double_gap(v, icon) ==
    LET r == score_variant_to_icon_unclamped(v, icon)
        gap == IF v.year # 0 /\ Truthy(icon.year)
                  /\ Abs(v.year - icon.year[1]) > 20
               THEN 8 * SubUnit ELSE 0
    IN  [score |-> Clamp01(r.score - gap), parts |-> r.parts]

score_variant_to_icon(v, icon) ==
    LET make_can == canonical_make(v.make)
        make_toks == tokenize(make_can)
        make_score == overlap_score(make_toks, icon.make_tokens)
        gen_toks == tokenize(v.genmodel)
        model_toks == tokenize(v.model)
        gen_score == overlap_score(gen_toks, icon.model_tokens)
        model_score == overlap_score(model_toks, icon.model_tokens)
        family_q == extract_family_tokens(v.make, v.genmodel, v.model)
        family_score == overlap_score(family_q, icon.family_tokens)
        v_year == v.year
        both == v_year # 0 /\ Truthy(icon.year)
        \* max(0.0, 1.0 - abs(v_year - icon.year) / 15.0), else 0.25
        year_score == IF both
                      THEN Max(0, SubUnit - (SubUnit * Abs(v_year - icon.year[1])) \div 15)
                      ELSE SubUnit \div 4
        variant_race_like ==
            looks_race_or_special(tokenize(Sp(v.genmodel, v.model)))
        weighted == 42 * make_score + 28 * family_score + 15 * gen_score
                        + 10 * model_score + 5 * year_score
        race == IF icon.race_like /\ ~variant_race_like THEN 16 * SubUnit ELSE 0
        gap == IF both /\ Abs(v_year - icon.year[1]) > 20 THEN 8 * SubUnit ELSE 0
    IN  [score |-> Clamp01(weighted - race - gap),
         parts |-> [make |-> make_score, family |-> family_score,
                    genmodel |-> gen_score, model |-> model_score,
                    year |-> year_score]]

(***************************************************************************)
(* Inputs of the scorer                                                    *)
(***************************************************************************)
ScenarioVariant ==
    [make |-> <<"M","e","r","c","e","d","e","s"," ","B","e","n","z">>, genmodel |-> <<"E"," ","C","l","a","s","s">>, model |-> <<"E","2","2","0">>,
     year |-> 2015, fleet_estimate |-> 5000]

ScenarioIcon ==
    [icon_file |-> <<"m","e","r","c","e","d","e","s","_","e","_","c","l","a","s","s","_","2","0","1","5",".","p","n","g">>,
     icon_path |-> ICON_DIR_REL \o <<"m","e","r","c","e","d","e","s","_","e","_","c","l","a","s","s","_","2","0","1","5",".","p","n","g">>,
     key |-> <<"m","e","r","c","e","d","e","s","_","e","_","c","l","a","s","s","_","2","0","1","5">>,
     label |-> <<"M","e","r","c","e","d","e","s"," ","E"," ","C","l","a","s","s"," ","2","0","1","5">>,
     make_canonical |-> <<"m","e","r","c","e","d","e","s">>,
     make_tokens |-> <<<<"m","e","r","c","e","d","e","s">>>>,
     model_tokens |-> <<<<"m","e","r","c","e","d","e","s">>, <<"e">>, <<"c","l","a","s","s">>, <<"2","0","1","5">>>>,
     year |-> Some(2015),
     family_tokens |-> <<<<"e">>, <<"c","l","a","s","s">>>>,
     race_like |-> FALSE]

ScoreMakes == { <<>>, <<"M","e","r","c","e","d","e","s"," ","B","e","n","z">>, <<"V","W">>, <<"T","o","y","o","t","a">>, <<"R","a","n","g","e"," ","R","o","v","e","r">> }
ScoreGenModels == { <<>>, <<"E"," ","C","l","a","s","s">>, <<"G","o","l","f">>, <<"G","R","0","1","0"," ","H","y","b","r","i","d">>,
                    <<"R","a","n","g","e"," ","R","o","v","e","r"," ","E","v","o","q","u","e">> }
ScoreModels == { <<>>, <<"E","2","2","0">>, <<"G","T","I"," ","R","a","c","e">>, <<"E","v","o","q","u","e"," ","C","o","u","p","e"," ","D","y","n","a","m","i","c">> }
ScoreYears == { 0, 2015, 1990, 1800, 9999, 0 - 5 }
ScoreFleets == { 5000 }

Variants ==
    [make : ScoreMakes, genmodel : ScoreGenModels, model : ScoreModels,
     year : ScoreYears, fleet_estimate : ScoreFleets]

IconEntries ==
    {IconEntryOf(raw) : raw \in {r \in RawIcons : r.has_png}}
        \cup {ScenarioIcon,
              [ScenarioIcon EXCEPT !.year = None, !.race_like = TRUE],
              [ScenarioIcon EXCEPT !.make_canonical = <<>>, !.make_tokens = <<>>,
                                   !.family_tokens = <<>>, !.year = Some(0)]}

(***************************************************************************)
(* SpecScore: score_variant_to_icon applied to a (variant, icon) pair      *)
(***************************************************************************)
InitScore ==
    /\ fn = "score_variant_to_icon"
    /\ arg \in [variant : Variants, icon : IconEntries]
    /\ ret = None /\ MainIdle /\ LookupIdle

CallScoreVariantToIcon ==
    /\ fn = "score_variant_to_icon" /\ ret = None
    /\ ret' = Some(score_variant_to_icon(arg.variant, arg.icon))
    /\ UNCHANGED <<fn, arg, mainVars, lookupVars>>

SpecScore == InitScore /\ [][CallScoreVariantToIcon]_vars

(***************************************************************************)
(* C1: for every variant and every icon entry, empty texts, unknown years  *)
(* and large year gaps included, the final score is within [0,1] and so is *)
(* each of the five sub-scores.                                            *)
(***************************************************************************)
C1_ScoreInUnitInterval ==
    (fn = "score_variant_to_icon" /\ ret # None) =>
        /\ 0 <= ret[1].score /\ ret[1].score <= 100 * SubUnit
        /\ \A p \in {"make", "family", "genmodel", "model", "year"} :
               0 <= ret[1].parts[p] /\ ret[1].parts[p] <= SubUnit

\* a race-flagged icon of another make 8000 years from the variant: both
\* penalties apply to a weighted sum below them
C1_Witness ==
    /\ fn = "score_variant_to_icon" /\ ret # None
    /\ arg.variant.make = <<>> /\ arg.variant.year = 9999
    /\ arg.icon.race_like /\ Truthy(arg.icon.year)
    /\ ret[1].score = 0 /\ ret[1].parts.year = 0

MaxFleet == 1
MaxCatalog == 2

build_make_index(entries) ==
    [m \in {entries[i].make_canonical : i \in 1..Len(entries)} |->
        LET Same(e) == e.make_canonical = m IN SelectSeq(entries, Same)]

\* a dict as the sequence of its <<key, value>> pairs in insertion order
Has(d, k) == \E i \in 1..Len(d) : d[i][1] = k
Get(d, k) == d[CHOOSE i \in 1..Len(d) : d[i][1] = k][2]
Put(d, k, v) ==
    IF Has(d, k)
    THEN [i \in 1..Len(d) |-> IF d[i][1] = k THEN <<k, v>> ELSE d[i]]
    ELSE Append(d, <<k, v>>)

\* by_make.get(make_can, [])
DictGet(d, k, default) == IF k \in DOMAIN d THEN d[k] ELSE default

\* round(x, 4) of a score in 1/ScoreOne and of a sub-score in 1/SubUnit; the
\* quotient is never half-way between two multiples of 1/10000
Round4(x, unit) == (2 * 10000 * x + unit) \div (2 * unit)

ZeroParts == [make |-> 0, family |-> 0, genmodel |-> 0, model |-> 0, year |-> 0]

CandidatesOfAnyOverlap(catalog, v) ==
    LET make_toks == SetOf(tokenize(canonical_make(v.make)))
        Overlaps(e) == make_toks \cap SetOf(e.make_tokens) # {}
    IN  SelectSeq(catalog, Overlaps)

CandidatesOf(catalog, v) ==
    LET make_can == canonical_make(v.make)
        exact == DictGet(build_make_index(catalog), make_can, <<>>)
        make_toks == SetOf(tokenize(make_can))
        Overlaps(e) == make_toks \cap SetOf(e.make_tokens) # {}
    IN  IF exact # <<>> THEN exact ELSE SelectSeq(catalog, Overlaps)

StartVariant ==
    /\ mpc = "variant" /\ vi <= Len(fleet)
    /\ variant' = Some(fleet[vi])
    /\ candidates' = CandidatesOf(icons, fleet[vi])
    /\ best_score' = 0 - ScoreOne
    /\ best_icon' = None
    /\ best_parts' = ZeroParts
    /\ cand_i' = 1
    /\ mpc' = "score"
    /\ UNCHANGED <<fnVars, lookupVars, serverVars, reportVars, aggVars, icons, fleet, vi, status, results>>

ScoreCandidateLastWins ==
    /\ mpc = "score" /\ cand_i <= Len(candidates)
    /\ LET icon == candidates[cand_i]
           r == score_variant_to_icon(variant[1], icon)
       IN  IF r.score >= best_score
           THEN /\ best_score' = r.score
                /\ best_icon' = Some(icon)
                /\ best_parts' = r.parts
           ELSE UNCHANGED <<best_score, best_icon, best_parts>>
    /\ cand_i' = cand_i + 1
    /\ UNCHANGED <<fnVars, lookupVars, serverVars, reportVars, aggVars, icons, fleet, vi, variant, candidates, status,
                   results, mpc>>

ScoreCandidate ==
    /\ mpc = "score" /\ cand_i <= Len(candidates)
    /\ LET icon == candidates[cand_i]
           r == score_variant_to_icon(variant[1], icon)
       IN  IF r.score > best_score
           THEN /\ best_score' = r.score
                /\ best_icon' = Some(icon)
                /\ best_parts' = r.parts
           ELSE UNCHANGED <<best_score, best_icon, best_parts>>
    /\ cand_i' = cand_i + 1
    /\ UNCHANGED <<fnVars, lookupVars, serverVars, reportVars, aggVars, icons, fleet, vi, variant, candidates, status,
                   results, mpc>>

ResultOfRawScore(v, st, bscore, bicon, bparts) ==
    [status |-> st,
     score |-> Round4(bscore, ScoreOne),
     make |-> v.make, genmodel |-> v.genmodel, model |-> v.model,
     year |-> v.year, fleet_estimate |-> v.fleet_estimate,
     best_icon_file |-> IF bicon # None THEN bicon[1].icon_file ELSE <<>>,
     best_icon_path |-> IF bicon # None THEN bicon[1].icon_path ELSE <<>>,
     best_icon_label |-> IF bicon # None THEN bicon[1].label ELSE <<>>,
     match_make |-> Round4(bparts.make, SubUnit),
     match_family |-> Round4(bparts.family, SubUnit),
     match_genmodel |-> Round4(bparts.genmodel, SubUnit),
     match_model |-> Round4(bparts.model, SubUnit),
     match_year |-> Round4(bparts.year, SubUnit)]

ResultOf(v, st, bscore, bicon, bparts) ==
    [status |-> st,
     score |-> Round4(Max(bscore, 0), ScoreOne),
     make |-> v.make, genmodel |-> v.genmodel, model |-> v.model,
     year |-> v.year, fleet_estimate |-> v.fleet_estimate,
     best_icon_file |-> IF bicon # None THEN bicon[1].icon_file ELSE <<>>,
     best_icon_path |-> IF bicon # None THEN bicon[1].icon_path ELSE <<>>,
     best_icon_label |-> IF bicon # None THEN bicon[1].label ELSE <<>>,
     match_make |-> Round4(bparts.make, SubUnit),
     match_family |-> Round4(bparts.family, SubUnit),
     match_genmodel |-> Round4(bparts.genmodel, SubUnit),
     match_model |-> Round4(bparts.model, SubUnit),
     match_year |-> Round4(bparts.year, SubUnit)]

AppendResult ==
    /\ mpc = "score" /\ cand_i > Len(candidates)
    /\ status' = classify(IF best_score > 0 THEN best_score ELSE 0,
                          candidates # <<>>)
    /\ results' = Append(results, ResultOf(variant[1], status', best_score,
                                           best_icon, best_parts))
    /\ vi' = vi + 1
    /\ mpc' = "variant"
    /\ UNCHANGED <<fnVars, lookupVars, serverVars, reportVars, aggVars, icons, fleet, variant, candidates, cand_i,
                   best_score, best_icon, best_parts>>

(***************************************************************************)
(* The report of main(), lines 378-422: the results sorted, the coverage   *)
(* JSON, the three CSVs by status, the shortlist of missing variants.      *)
(***************************************************************************)
TOP_N == 250

\* str order of the three status values: "clearly_missing" < "covered" < "weak_match"
StatusRank(st) ==
    CASE st = "clearly_missing" -> 1
      [] st = "covered" -> 2
      [] st = "weak_match" -> 3

\* line 378: the key (status, -fleet_estimate, score) of a before that of b
SortKeyLessFleetAscending(a, b) ==
    \/ StatusRank(a.status) < StatusRank(b.status)
    \/ /\ a.status = b.status
       /\ \/ a.fleet_estimate < b.fleet_estimate
          \/ a.fleet_estimate = b.fleet_estimate /\ a.score < b.score

SortKeyLess(a, b) ==
    \/ StatusRank(a.status) < StatusRank(b.status)
    \/ /\ a.status = b.status
       /\ \/ 0 - a.fleet_estimate < 0 - b.fleet_estimate
          \/ 0 - a.fleet_estimate = 0 - b.fleet_estimate /\ a.score < b.score

\* r put into a sorted list before the first element it is less than (the
\* sort is stable)
InsertByKey(sorted, r) ==
    LET after == {i \in 1..Len(sorted) : SortKeyLess(r, sorted[i])}
        at == IF after = {} THEN Len(sorted) + 1
              ELSE CHOOSE i \in after : \A j \in after : i <= j
    IN  SubSeq(sorted, 1, at - 1) \o <<r>> \o SubSeq(sorted, at, Len(sorted))

RECURSIVE SortInto(_, _)
SortInto(sorted, rest) ==
    IF rest = <<>> THEN sorted
    ELSE SortInto(InsertByKey(sorted, rest[1]), Tail(rest))

\* results.sort(key=...)
SortedResults(rs) == SortInto(<<>>, rs)

\* lines 380-382
RECURSIVE SummaryOf(_, _)
SummaryOf(counts, rs) ==
    IF rs = <<>> THEN counts
    ELSE SummaryOf(Put(counts, rs[1].status,
                       IF Has(counts, rs[1].status)
                       THEN Get(counts, rs[1].status) + 1 ELSE 1),
                   Tail(rs))

\* lines 412-414
RowsOfStatusAny(rs, st) == rs
RowsOfStatus(rs, st) ==
    LET Is(r) == r.status = st IN SelectSeq(rs, Is)

\* line 421: sorted(missing, key=fleet_estimate, reverse=True)[:250]
InsertByFleet(sorted, r) ==
    LET after == {i \in 1..Len(sorted) : sorted[i].fleet_estimate < r.fleet_estimate}
        at == IF after = {} THEN Len(sorted) + 1
              ELSE CHOOSE i \in after : \A j \in after : i <= j
    IN  SubSeq(sorted, 1, at - 1) \o <<r>> \o SubSeq(sorted, at, Len(sorted))

RECURSIVE SortByFleetInto(_, _)
SortByFleetInto(sorted, rest) ==
    IF rest = <<>> THEN sorted
    ELSE SortByFleetInto(InsertByFleet(sorted, rest[1]), Tail(rest))

TopMissing(rs) ==
    LET s == SortByFleetInto(<<>>, rs)
    IN  SubSeq(s, 1, Min(TOP_N, Len(s)))

WriteReport ==
    /\ mpc = "variant" /\ vi > Len(fleet)
    /\ results' = SortedResults(results)
    /\ coverage_json' = Some(
           [thresholds |-> [clearly_missing_below |-> MISSING_THRESHOLD,
                            weak_match_below |-> WEAK_THRESHOLD],
            summary |-> SummaryOf(<<>>, results'),
            total_variants |-> Len(results'),
            results |-> results'])
    /\ missing' = Some(RowsOfStatus(results', "clearly_missing"))
    /\ weak' = Some(RowsOfStatus(results', "weak_match"))
    /\ covered' = Some(RowsOfStatus(results', "covered"))
    /\ missing_top' = Some(TopMissing(missing'[1]))
    /\ mpc' = "done"
    /\ UNCHANGED <<fnVars, lookupVars, serverVars, aggVars, icons, fleet, vi, variant,
                   candidates, cand_i, best_score, best_icon, best_parts, status>>

\* the fleet of the model: variants as the aggregator yields them (a make, a
\* genmodel or model, one variant per key)
MatchVariants ==
    [make : {<<"M","e","r","c","e","d","e","s"," ","B","e","n","z">>, <<"V","W">>, <<"R","o","v","e","r">>},
     genmodel : {<<"E"," ","C","l","a","s","s">>, <<"G","o","l","f">>},
     model : {<<"E","2","2","0">>},
     year : {0, 2015, 1980},
     fleet_estimate : {5000}]

VariantKey(v) == <<v.make, v.genmodel, v.model, v.year>>

Fleets(n) == {f \in WordSeqs(MatchVariants, n) :
                 /\ f # <<>>
                 /\ \A i, j \in 1..Len(f) :
                        VariantKey(f[i]) = VariantKey(f[j]) => i = j}

\* the catalog of the model: loaded entries and the scenario's entry
MatchIcons ==
    {IconEntryOf(raw) :
        raw \in {r \in RawIcons : r.has_png /\ r.key # <<"m","e","r","c","e","d","e","s","_","e","_","c","l","a","s","s","_","2","0","1","5">>}}
        \cup {ScenarioIcon}

Catalogs(n) == {c \in WordSeqs(MatchIcons, n) :
                   \A i, j \in 1..Len(c) : c[i].key = c[j].key => i = j}

InitMatch ==
    /\ fn = "" /\ arg = None /\ ret = None /\ LookupIdle
    /\ ReportIdle /\ AggIdle /\ ServerIdle
    /\ icons \in Catalogs(MaxCatalog)
    /\ fleet \in Fleets(MaxFleet)
    /\ vi = 1 /\ results = <<>>
    /\ variant = None /\ candidates = <<>> /\ cand_i = 0
    /\ best_score = 0 /\ best_icon = None /\ best_parts = None
    /\ status = "" /\ mpc = "variant"

NextMatch == StartVariant \/ ScoreCandidate \/ AppendResult \/ WriteReport

SpecMatch == InitMatch /\ [][NextMatch]_vars

(***************************************************************************)
(* C3: the variant {Mercedes Benz, E Class, E220, 2015} scored against the *)
(* icon {make_canonical mercedes, model_tokens [mercedes,e,class,2015],    *)
(* family_tokens [e,class], year 2015, not race-like} has make sub-score   *)
(* 1.0 (after the alias mercedes benz -> mercedes), year sub-score 1.0,    *)
(* an overall score >= 0.42, and is classified covered.                    *)
(***************************************************************************)
C3_ScenarioCovered ==
    (/\ mpc = "variant" /\ results # <<>>
     /\ variant = Some(ScenarioVariant) /\ icons = <<ScenarioIcon>>) =>
        LET r == results[Len(results)]
        IN  /\ canonical_make(ScenarioVariant.make) = <<"m","e","r","c","e","d","e","s">>
            /\ best_icon = Some(ScenarioIcon)
            /\ best_parts.make = SubUnit /\ r.match_make = 10000
            /\ best_parts.year = SubUnit /\ r.match_year = 10000
            /\ 100 * best_score >= 42 * ScoreOne /\ r.score >= 4200
            /\ status = "covered" /\ r.status = "covered"

C3_Witness ==
    /\ mpc = "variant" /\ results # <<>>
    /\ variant = Some(ScenarioVariant) /\ icons = <<ScenarioIcon>>
    /\ results[Len(results)].best_icon_file = ScenarioIcon.icon_file
    /\ results[Len(results)].score = 7133

(***************************************************************************)
(* build_dvla_vehicle_icon_lookup.py                                       *)
(*                                                                         *)
(* A score is counted in 1/LScoreOne (two decimals), a weight in           *)
(* 1/LScoreOne, a score_weight in 1/LScoreOne^2.  A dict is the sequence   *)
(* of its <<key, value>> pairs in insertion order.  A CSV file is None     *)
(* when it does not exist, else Some(rows); a row holds the text of its    *)
(* cells.                                                                  *)
(***************************************************************************)
LScoreOne == 100
MIN_COVERED_SCORE == 50
MIN_WEAK_SCORE == 60
MIN_DEFAULT_SCORE == 52

LOOKUP_MAKE_ALIAS == <<
    <<<<"m","e","r","c","e","d","e","s"," ","b","e","n","z">>, <<"m","e","r","c","e","d","e","s">>>>,
    <<<<"m","e","r","c","e","d","e","s","-","b","e","n","z">>, <<"m","e","r","c","e","d","e","s">>>>,
    <<<<"m","e","r","c","e","d","e","s"," ","a","m","g">>, <<"m","e","r","c","e","d","e","s">>>>,
    <<<<"a","m","g"," ","m","e","r","c","e","d","e","s">>, <<"m","e","r","c","e","d","e","s">>>>,
    <<<<"a","l","f","a"," ","r","o","m","e","o">>, <<"a","l","f","a","r","o","m","e","o">>>>,
    <<<<"l","a","n","d"," ","r","o","v","e","r">>, <<"l","a","n","d","r","o","v","e","r">>>>,
    <<<<"r","a","n","g","e"," ","r","o","v","e","r">>, <<"l","a","n","d","r","o","v","e","r">>>>,
    <<<<"r","o","l","l","s"," ","r","o","y","c","e">>, <<"r","o","l","l","s","r","o","y","c","e">>>>,
    <<<<"v","w">>, <<"v","o","l","k","s","w","a","g","e","n">>>> >>

\* letters outside ASCII, for which str.isalnum() holds all the same
NonAsciiLetters == {"é"}

\* str.isalnum()
IsAlnumChar(c) ==
    \/ IsTokenChar(c) \/ IndexOf(UpperLetters, c) > 0 \/ c \in NonAsciiLetters

normalize_make_key(text) ==
    LET base == [i \in 1..Len(text) |->
                    IF IsAlnumChar(text[i]) THEN ToLowerChar(text[i]) ELSE " "]
        \* base.split(): the maximal runs of non-space characters
        IsStart(i) == base[i] # " " /\ (i = 1 \/ base[i - 1] = " ")
        starts == SelectSeq([i \in 1..Len(base) |-> i], IsStart)
        EndOf(i) == CHOOSE j \in i..Len(base) :
                        /\ \A k \in i..j : base[k] # " "
                        /\ (j = Len(base) \/ base[j + 1] = " ")
        toks == [k \in 1..Len(starts) |-> SubSeq(base, starts[k], EndOf(starts[k]))]
        joined == Join(toks, <<" ">>)
        two == Join(SubSeq(toks, 1, 2), <<" ">>)
    IN  IF toks = <<>> THEN <<>>
        ELSE IF InAlias(LOOKUP_MAKE_ALIAS, joined)
             THEN AliasOf(LOOKUP_MAKE_ALIAS, joined)
        ELSE IF Len(toks) >= 2 /\ InAlias(LOOKUP_MAKE_ALIAS, two)
             THEN AliasOf(LOOKUP_MAKE_ALIAS, two)
        ELSE Join(toks, <<>>)

\* int(float(str(text or "0").strip())), 0 when float() raises
safe_int(text) ==
    LET s == Strip(IF text = <<>> THEN <<"0">> ELSE text)
        neg == s # <<>> /\ s[1] = "-"
        u == IF s # <<>> /\ s[1] \in {"-", "+"} THEN Tail(s) ELSE s
    IN  IF IsUnsignedNumeral(u)
        THEN (IF neg THEN 0 - UnsignedIntPart(u) ELSE UnsignedIntPart(u))
        ELSE 0

\* float("nan"): not a number.  It is no score of two decimals, and every
\* comparison with it is false, every sum and product with it is NaN.
NaN == -999999
IsNaNText(s) == Lower(s) \in {<<"n","a","n">>, <<"+","n","a","n">>, <<"-","n","a","n">>}
FLess(a, b) == a # NaN /\ b # NaN /\ a < b
FAdd(a, b) == IF a = NaN \/ b = NaN THEN NaN ELSE a + b
FMul(a, b) == IF a = NaN \/ b = NaN THEN NaN ELSE a * b
\* max(a, b) of Python: b when b > a, else a
PyMax(a, b) == IF FLess(a, b) THEN b ELSE a

\* float(str(text or "0").strip()) in 1/LScoreOne, 0 when float() raises; the
\* numerals of the model have at most two decimals
safe_float(text) ==
    LET s == Strip(IF text = <<>> THEN <<"0">> ELSE text)
        neg == s # <<>> /\ s[1] = "-"
        u == IF s # <<>> /\ s[1] \in {"-", "+"} THEN Tail(s) ELSE s
        dot == IndexOf(u, ".")
        fp == IF dot = 0 THEN <<>> ELSE SubSeq(u, dot + 1, Len(u))
        fp2 == SubSeq(fp \o <<"0", "0">>, 1, 2)
        mag == LScoreOne * UnsignedIntPart(u) + IntOf(fp2)
    IN  IF IsNaNText(s) THEN NaN
        ELSE IF IsUnsignedNumeral(u) THEN (IF neg THEN 0 - mag ELSE mag) ELSE 0

StartsWith(text, prefix) ==
    Len(text) >= Len(prefix) /\ SubSeq(text, 1, Len(prefix)) = prefix

ICON_PREFIX == <<"g","f","x","/","v","e","h","i","c","l","e","_","i","c","o","n","s","/">>


\* d.setdefault(k, {"icon": icon_path, "label": label, "weight": 0.0, ...})
NewSlot(icon_path, label) ==
    [icon |-> icon_path, label |-> label, weight |-> 0, score_weight |-> 0,
     samples |-> 0]
SetDefault(d, k, icon_path, label) ==
    IF Has(d, k) THEN Get(d, k) ELSE NewSlot(icon_path, label)

\* lines 98-113 and 119-131: one accepted row folded into a node
fold_slot_by_row_score(slot, icon_path, label, weight, score) ==
    IF slot.icon # icon_path
    THEN IF FLess(slot.weight, FMul(score, LScoreOne))
         THEN [icon |-> icon_path, label |-> label, weight |-> weight,
               score_weight |-> FMul(weight, score), samples |-> slot.samples + 1]
         ELSE [slot EXCEPT !.weight = slot.weight + weight,
                           !.score_weight = FAdd(slot.score_weight, FMul(weight, score)),
                           !.samples = slot.samples + 1]
    ELSE [slot EXCEPT !.weight = slot.weight + weight,
                      !.score_weight = FAdd(slot.score_weight, FMul(weight, score)),
                      !.samples = slot.samples + 1]

fold_slot_samples_restart(slot, icon_path, label, weight, score) ==
    IF slot.icon # icon_path
    THEN IF weight > slot.weight
         THEN [icon |-> icon_path, label |-> label, weight |-> weight,
               score_weight |-> FMul(weight, score), samples |-> 1]
         ELSE [slot EXCEPT !.weight = slot.weight + weight,
                           !.score_weight = FAdd(slot.score_weight, FMul(weight, score)),
                           !.samples = slot.samples + 1]
    ELSE [slot EXCEPT !.weight = slot.weight + weight,
                      !.score_weight = FAdd(slot.score_weight, FMul(weight, score)),
                      !.samples = slot.samples + 1]

fold_slot(slot, icon_path, label, weight, score) ==
    IF slot.icon # icon_path
    THEN IF weight > slot.weight
         THEN [icon |-> icon_path, label |-> label, weight |-> weight,
               score_weight |-> FMul(weight, score), samples |-> slot.samples + 1]
         ELSE [slot EXCEPT !.weight = slot.weight + weight,
                           !.score_weight = FAdd(slot.score_weight, FMul(weight, score)),
                           !.samples = slot.samples + 1]
    ELSE [slot EXCEPT !.weight = slot.weight + weight,
                      !.score_weight = FAdd(slot.score_weight, FMul(weight, score)),
                      !.samples = slot.samples + 1]

\* max(1.0, float(fleet) * max(score, 0.01)), in 1/LScoreOne
RowWeight(fleet_estimate, score) ==
    PyMax(LScoreOne, FMul(fleet_estimate, PyMax(score, 1)))

\* avg_score(node) < t / LScoreOne, and round(avg_score(node), 4) in 1/10000
AvgBelow(node, t) ==
    IF node.weight <= 0 THEN 0 < t
    ELSE FLess(node.score_weight, t * node.weight)
avg_score_per_sample(node) ==
    IF node.weight <= 0 THEN 0
    ELSE IF node.score_weight = NaN THEN NaN
    ELSE (2 * node.score_weight + LScoreOne * node.samples)
             \div (2 * LScoreOne * node.samples)

avg_score(node) ==
    IF node.weight <= 0 THEN 0
    ELSE IF node.score_weight = NaN THEN NaN
    ELSE LScoreOne * (node.score_weight \div node.weight)
           + (2 * LScoreOne * (node.score_weight % node.weight) + node.weight)
                 \div (2 * node.weight)

(***************************************************************************)
(* The builder's run: main() of build_dvla_vehicle_icon_lookup.py          *)
(*   ConsumeMissing  lines 69-70    consume_rows on a path that is absent  *)
(*   ConsumeRow      lines 75-133   one CSV row read, filtered, folded     *)
(*   ConsumeEnd      lines 134, 148-149  rows_used returned to main()      *)
(*   Finalize        lines 151-197  by_make built, the lookup written      *)
(*   StartRun        lines 145-146  the builder is run again               *)
(* out_json holds every lookup written, the last one being the file.       *)
(***************************************************************************)
MaxRows == 3
MaxRuns == 2

CurrentCsv == IF lpc = "covered" THEN covered_csv ELSE weak_csv
MinScore == IF lpc = "covered" THEN MIN_COVERED_SCORE ELSE MIN_WEAK_SCORE

\* what consume_rows reads of a row
RowIconPath(row) == Strip(row.best_icon_path)
RowMakeKey(row) == normalize_make_key(row.make)
RowScore(row) == safe_float(row.score)
RowYear(row) == safe_int(row.year)
RowFleet(row) == safe_int(row.fleet_estimate)
RowLabel(row) == Strip(row.best_icon_label)

\* lines 76-86: the row passes the three filters of consume_rows
AcceptedWhateverScore(row, min_score) ==
    /\ StartsWith(RowIconPath(row), ICON_PREFIX)
    /\ RowMakeKey(row) # <<>>

Accepted(row, min_score) ==
    /\ StartsWith(RowIconPath(row), ICON_PREFIX)
    /\ RowMakeKey(row) # <<>>
    /\ ~FLess(RowScore(row), min_score)

ConsumeMissingRaises ==
    /\ lpc \in {"covered", "weak"} /\ CurrentCsv = None
    /\ lpc' = "raised"
    /\ UNCHANGED <<fnVars, mainVars, covered_csv, weak_csv, by_make_year,
                   by_make_default, rows_used, used_covered, used_weak, cursor,
                   clock, out_json>>

ConsumeMissing ==
    /\ lpc \in {"covered", "weak"} /\ CurrentCsv = None
    /\ IF lpc = "covered"
       THEN used_covered' = 0 /\ UNCHANGED used_weak
       ELSE used_weak' = 0 /\ UNCHANGED used_covered
    /\ lpc' = IF lpc = "covered" THEN "weak" ELSE "finalize"
    /\ UNCHANGED <<fnVars, mainVars, covered_csv, weak_csv, by_make_year,
                   by_make_default, rows_used, cursor, clock, out_json>>

ConsumeRow ==
    /\ lpc \in {"covered", "weak"} /\ CurrentCsv # None
    /\ cursor <= Len(CurrentCsv[1])
    /\ LET row == CurrentCsv[1][cursor]
           icon_path == RowIconPath(row)
           make_key == RowMakeKey(row)
           score == RowScore(row)
           year == RowYear(row)
           weight == RowWeight(RowFleet(row), score)
           label == RowLabel(row)
           years == IF Has(by_make_year, make_key)
                    THEN Get(by_make_year, make_key) ELSE <<>>
           slot == SetDefault(years, year, icon_path, label)
           dslot == SetDefault(by_make_default, make_key, icon_path, label)
       IN  IF Accepted(row, MinScore)
           THEN /\ by_make_year' =
                      IF year # 0
                      THEN Put(by_make_year, make_key,
                               Put(years, year,
                                   fold_slot(slot, icon_path, label, weight, score)))
                      ELSE by_make_year
                /\ by_make_default' =
                      Put(by_make_default, make_key,
                          fold_slot(dslot, icon_path, label, weight, score))
                /\ rows_used' = rows_used + 1
           ELSE UNCHANGED <<by_make_year, by_make_default, rows_used>>
    /\ cursor' = cursor + 1
    /\ UNCHANGED <<fnVars, mainVars, covered_csv, weak_csv, used_covered,
                   used_weak, lpc, clock, out_json>>

ConsumeEnd ==
    /\ lpc \in {"covered", "weak"} /\ CurrentCsv # None
    /\ cursor > Len(CurrentCsv[1])
    /\ IF lpc = "covered"
       THEN used_covered' = rows_used /\ UNCHANGED used_weak
       ELSE used_weak' = rows_used /\ UNCHANGED used_covered
    /\ rows_used' = 0
    /\ cursor' = 1
    /\ lpc' = IF lpc = "covered" THEN "weak" ELSE "finalize"
    /\ UNCHANGED <<fnVars, mainVars, covered_csv, weak_csv, by_make_year,
                   by_make_default, clock, out_json>>

\* lines 153-159: the make's default node exists and reaches MIN_DEFAULT_SCORE
EmitsAlways(defaults, make) == Has(defaults, make)
Emits(defaults, make) ==
    Has(defaults, make) /\ ~AvgBelow(Get(defaults, make), MIN_DEFAULT_SCORE)

YearOut(years) ==
    [i \in 1..Len(years) |->
        <<years[i][1],
          [icon |-> years[i][2].icon, label |-> years[i][2].label,
           score |-> avg_score(years[i][2]), samples |-> years[i][2].samples]>>]

ByMakeOut(make_year, defaults) ==
    LET Kept(p) == Emits(defaults, p[1])
        kept == SelectSeq(make_year, Kept)
    IN  [i \in 1..Len(kept) |->
            LET default == Get(defaults, kept[i][1])
            IN  <<kept[i][1],
                  [default_icon |-> default.icon,
                   default_label |-> default.label,
                   default_score |-> avg_score(default),
                   samples |-> default.samples,
                   years |-> YearOut(kept[i][2])]>>]

Finalize ==
    /\ lpc = "finalize"
    /\ clock' = clock + 1
    /\ LET by_make_out == ByMakeOut(by_make_year, by_make_default)
       IN  out_json' = Append(out_json,
               [generated_at_utc |-> clock',
                source |-> [covered_csv |-> "dvla_vehicle_icon_covered.csv",
                            weak_csv |-> "dvla_vehicle_icon_weak_matches.csv"],
                thresholds |-> [min_covered_score |-> MIN_COVERED_SCORE,
                                min_weak_score |-> MIN_WEAK_SCORE,
                                min_default_score |-> MIN_DEFAULT_SCORE],
                rows_used |-> [covered |-> used_covered, weak |-> used_weak],
                make_count |-> Len(by_make_out),
                by_make |-> by_make_out])
    /\ lpc' = "done"
    /\ UNCHANGED <<fnVars, mainVars, covered_csv, weak_csv, by_make_year,
                   by_make_default, rows_used, used_covered, used_weak, cursor>>

StartRunKeepingTables ==
    /\ lpc = "done" /\ Len(out_json) < MaxRuns
    /\ used_covered' = 0 /\ used_weak' = 0
    /\ rows_used' = 0 /\ cursor' = 1
    /\ lpc' = "covered"
    /\ UNCHANGED <<fnVars, mainVars, covered_csv, weak_csv, clock, out_json,
                   by_make_year, by_make_default>>

StartRun ==
    /\ lpc = "done" /\ Len(out_json) < MaxRuns
    /\ by_make_year' = <<>> /\ by_make_default' = <<>>
    /\ used_covered' = 0 /\ used_weak' = 0
    /\ rows_used' = 0 /\ cursor' = 1
    /\ lpc' = "covered"
    /\ UNCHANGED <<fnVars, mainVars, covered_csv, weak_csv, clock, out_json>>

(***************************************************************************)
(* The CSV rows of the model                                               *)
(***************************************************************************)
IconA == <<"g","f","x","/","v","e","h","i","c","l","e","_","i","c","o","n","s","/","g","r","a","n","_","t","u","r","i","s","m","o","_","2","0","0","_","c","i","r","c","l","e","/","a",".","p","n","g">>
IconB == <<"g","f","x","/","v","e","h","i","c","l","e","_","i","c","o","n","s","/","g","r","a","n","_","t","u","r","i","s","m","o","_","2","0","0","_","c","i","r","c","l","e","/","b",".","p","n","g">>

LookupRows == {
    [best_icon_path |-> IconA, best_icon_label |-> <<"A">>, make |-> <<"V","W">>,
     score |-> <<"0",".","9">>, year |-> <<"2","0","1","5">>, fleet_estimate |-> <<"1","0">>],
    [best_icon_path |-> IconB, best_icon_label |-> <<"B"," ">>, make |-> <<"v","w">>,
     score |-> <<"0",".","6","0">>, year |-> <<"2","0","1","5">>, fleet_estimate |-> <<"1","0","0">>],
    [best_icon_path |-> IconB, best_icon_label |-> <<"B">>, make |-> <<"V",".","W",".">>,
     score |-> <<"0",".","5","1">>, year |-> <<"0">>, fleet_estimate |-> <<"0">>],
    [best_icon_path |-> IconA, best_icon_label |-> <<"A">>,
     make |-> <<"M","e","r","c","e","d","e","s","-","B","e","n","z">>,
     score |-> <<"0",".","5","1">>, year |-> <<"2","0","1","5">>, fleet_estimate |-> <<"1","0">>],
    [best_icon_path |-> <<>>, best_icon_label |-> <<>>, make |-> <<"V","W">>,
     score |-> <<"0",".","9">>, year |-> <<"2","0","1","5">>, fleet_estimate |-> <<"1","0">>],
    [best_icon_path |-> IconA, best_icon_label |-> <<"A">>, make |-> <<"-","-">>,
     score |-> <<"0",".","9">>, year |-> <<"2","0","1","5">>, fleet_estimate |-> <<"1","0">>],
    [best_icon_path |-> IconB, best_icon_label |-> <<"B">>, make |-> <<"B","M","W">>,
     score |-> <<"n","a","n">>, year |-> <<"2","0","1","5">>, fleet_estimate |-> <<"1","0">>] }

CsvRows == WordSeqs(LookupRows, MaxRows)

InitLookup ==
    /\ fn = "" /\ arg = None /\ ret = None /\ MainIdle
    /\ covered_csv \in {None} \cup {Some(rows) : rows \in CsvRows}
    /\ weak_csv \in {None} \cup {Some(rows) : rows \in CsvRows}
    /\ (IF covered_csv = None THEN 0 ELSE Len(covered_csv[1]))
         + (IF weak_csv = None THEN 0 ELSE Len(weak_csv[1])) <= MaxRows
    /\ by_make_year = <<>> /\ by_make_default = <<>>
    /\ rows_used = 0 /\ used_covered = 0 /\ used_weak = 0
    /\ cursor = 1 /\ lpc = "covered" /\ clock = 0 /\ out_json = <<>>

Init == InitLookup

Next ==
    \/ ConsumeMissing
    \/ ConsumeRow
    \/ ConsumeEnd
    \/ Finalize
    \/ StartRun

Spec == Init /\ [][Next]_vars

ContributingRows(make_key) ==
    LET Of(csv, min_score) ==
            IF csv = None THEN <<>>
            ELSE LET Mine(row) == Accepted(row, min_score)
                                    /\ RowMakeKey(row) = make_key
                 IN  SelectSeq(csv[1], Mine)
    IN  Of(covered_csv, MIN_COVERED_SCORE) \o Of(weak_csv, MIN_WEAK_SCORE)

C9_DefaultThreshold ==
    lpc = "done" =>
        LET written == out_json[Len(out_json)]
            makes == {written.by_make[i][1] : i \in 1..Len(written.by_make)}
        IN  /\ \A i \in 1..Len(by_make_default) :
                  LET make == by_make_default[i][1]
                      node == by_make_default[i][2]
                      rows == ContributingRows(make)
                  IN  /\ FLess(FMul(node.score_weight, LScoreOne),
                               MIN_DEFAULT_SCORE * node.weight * LScoreOne)
                         => make \notin makes
                      /\ (Len(rows) = 1 /\ FLess(RowScore(rows[1]), MIN_DEFAULT_SCORE))
                         => make \notin makes
            /\ written.make_count = Cardinality(makes)
            /\ written.make_count = Len(written.by_make)

C9_Witness ==
    /\ lpc = "done"
    /\ Len(ContributingRows(<<"m","e","r","c","e","d","e","s">>)) = 1
    /\ RowScore(ContributingRows(<<"m","e","r","c","e","d","e","s">>)[1]) = 51
    /\ Has(by_make_year, <<"m","e","r","c","e","d","e","s">>)
    /\ out_json[Len(out_json)].make_count = 1
    /\ out_json[Len(out_json)].by_make[1][1] = <<"v","o","l","k","s","w","a","g","e","n">>

(***************************************************************************)
(* C10 Folding an accepted row (icon i, score s, weight                    *)
(*     w = max(1, fleet_estimate * max(s, 0.01))) into a node (c, W, SW):  *)
(*     i = c gives (c, W+w, SW+w*s); i # c and w > W gives (i, w, w*s)     *)
(*     with the row's label; i # c and w <= W gives (c, W+w, SW+w*s);      *)
(*     samples grows by one in each case; the first row of a node creates  *)
(*     it with that row's icon and contribution.  The per-make node is     *)
(*     folded so for every accepted row, the per-make-per-year node when   *)
(*     the row's year is not zero.                                         *)
(***************************************************************************)
Reduced(exists, node, after, row) ==
    LET i == RowIconPath(row)
        s == RowScore(row)
        f == RowFleet(row)
        w == PyMax(LScoreOne, FMul(f, PyMax(s, 1)))
    IN  IF ~exists
        THEN after = [icon |-> i, label |-> RowLabel(row), weight |-> w,
                      score_weight |-> FMul(w, s), samples |-> 1]
        ELSE IF i # node.icon /\ w > node.weight
        THEN after = [icon |-> i, label |-> RowLabel(row), weight |-> w,
                      score_weight |-> FMul(w, s), samples |-> node.samples + 1]
        ELSE after = [icon |-> node.icon, label |-> node.label,
                      weight |-> node.weight + w,
                      score_weight |-> FAdd(node.score_weight, FMul(w, s)),
                      samples |-> node.samples + 1]

YearNodes(table, make_key) == IF Has(table, make_key) THEN Get(table, make_key) ELSE <<>>

RowFolded ==
    (lpc \in {"covered", "weak"} /\ cursor' = cursor + 1
        /\ Accepted(CurrentCsv[1][cursor], MinScore)) =>
    LET row == CurrentCsv[1][cursor]
        make == RowMakeKey(row)
        year == RowYear(row)
    IN  /\ Has(by_make_default', make)
        /\ Reduced(Has(by_make_default, make),
                   IF Has(by_make_default, make)
                   THEN Get(by_make_default, make) ELSE NewSlot(<<>>, <<>>),
                   Get(by_make_default', make), row)
        /\ IF year # 0
           THEN /\ Has(YearNodes(by_make_year', make), year)
                /\ Reduced(Has(YearNodes(by_make_year, make), year),
                           IF Has(YearNodes(by_make_year, make), year)
                           THEN Get(YearNodes(by_make_year, make), year)
                           ELSE NewSlot(<<>>, <<>>),
                           Get(YearNodes(by_make_year', make), year), row)
           ELSE by_make_year' = by_make_year

C10_FoldReducer == [][RowFolded]_vars

\* a per-make node whose icon a heavier row has replaced, its year node too
C10_Witness ==
    /\ Has(by_make_default, <<"v","o","l","k","s","w","a","g","e","n">>)
    /\ Get(by_make_default, <<"v","o","l","k","s","w","a","g","e","n">>).icon = IconB
    /\ Get(by_make_default, <<"v","o","l","k","s","w","a","g","e","n">>).weight = 6000
    /\ Get(by_make_default, <<"v","o","l","k","s","w","a","g","e","n">>).score_weight = 360000
    /\ Get(by_make_default, <<"v","o","l","k","s","w","a","g","e","n">>).samples = 2
    /\ Get(YearNodes(by_make_year, <<"v","o","l","k","s","w","a","g","e","n">>), 2015).icon = IconB
    /\ Get(YearNodes(by_make_year, <<"v","o","l","k","s","w","a","g","e","n">>), 2015).samples = 2

(***************************************************************************)
(* C11 A row is folded only if its score is >= 0.50 read from the covered  *)
(*     CSV and >= 0.60 read from the weak-match CSV, its icon path is      *)
(*     under gfx/vehicle_icons/ and its make key is not empty; a row       *)
(*     failing any of these leaves every per-make node, every per-year     *)
(*     node and the rows-used counter unchanged.                           *)
(***************************************************************************)
ScoreAtLeast(score, min_score) == score # NaN /\ score >= min_score

Passes(row, min_score) ==
    /\ ScoreAtLeast(RowScore(row), min_score)
    /\ StartsWith(RowIconPath(row), ICON_PREFIX)
    /\ RowMakeKey(row) # <<>>

RowFiltered ==
    (lpc \in {"covered", "weak"} /\ cursor' = cursor + 1) =>
    LET row == CurrentCsv[1][cursor]
        min_score == IF lpc = "covered" THEN 50 ELSE 60
    IN  \/ Passes(row, min_score)
        \/ UNCHANGED <<by_make_default, by_make_year, rows_used>>

MissingStep ==
    (lpc \in {"covered", "weak"} /\ CurrentCsv = None) =>
        /\ UNCHANGED <<by_make_default, by_make_year>>
        /\ lpc = "covered" => (used_covered' = 0 /\ lpc' = "weak")
        /\ lpc = "weak" => (used_weak' = 0 /\ lpc' = "finalize")

\* the run goes from phase to phase, and the lookup written counts zero rows
\* for a missing file
LookupWritten ==
    /\ lpc \in {"covered", "weak", "finalize", "done"}
    /\ lpc = "done" =>
          /\ out_json # <<>>
          /\ covered_csv = None => out_json[Len(out_json)].rows_used.covered = 0
          /\ weak_csv = None => out_json[Len(out_json)].rows_used.weak = 0

C17_MissingCsvIsZeroRows == [][MissingStep]_vars /\ []LookupWritten

C17_Witness ==
    /\ lpc = "done"
    /\ covered_csv = None /\ weak_csv # None
    /\ out_json[Len(out_json)].rows_used.weak = 2
    /\ out_json[Len(out_json)].make_count = 1

(***************************************************************************)
(* SpecAgg: iter_dvla_variants() folds the census rows into agg, one item  *)
(* per (make, genmodel, model, year).  A census row is the record of its   *)
(* cells [BodyType, Make, GenModel, Model, YearManufacture, YearFirstUsed, *)
(* c2024, c2023]; agg is the sequence of <<key, item>> in insertion order. *)
(***************************************************************************)
MaxCensus == 3

\* lines 238-239: normalize_space(row.get("BodyType", "")).lower() == "cars"
IsCars(row) == Lower(normalize_space(row.BodyType)) = <<"c","a","r","s">>

\* line 245: parse_int_like(YearManufacture) or parse_int_like(YearFirstUsed)
CensusYear(row) ==
    IF parse_int_like(row.YearManufacture) # 0
    THEN parse_int_like(row.YearManufacture)
    ELSE parse_int_like(row.YearFirstUsed)

\* line 251
CensusKey(row) ==
    <<normalize_space(row.Make), normalize_space(row.GenModel),
      normalize_space(row.Model), CensusYear(row)>>

\* lines 238-248: the row is a car with a make and a genmodel or a model
CensusAccepted(row) ==
    /\ IsCars(row)
    /\ normalize_space(row.Make) # <<>>
    /\ (normalize_space(row.GenModel) # <<>> \/ normalize_space(row.Model) # <<>>)

\* line 250
latest_count(row) == parse_int_like(row.c2024) + parse_int_like(row.c2023)

FoldCensusRowNewItemAlways ==
    /\ ai >= 1 /\ ai <= Len(dvla_csv)
    /\ LET row == dvla_csv[ai]
           key == CensusKey(row)
       IN  IF CensusAccepted(row)
           THEN agg' = Append(agg,
                    <<key, [make |-> key[1], genmodel |-> key[2],
                            model |-> key[3], year |-> key[4],
                            fleet_estimate |-> latest_count(row), rows |-> 1]>>)
           ELSE UNCHANGED agg
    /\ ai' = ai + 1
    /\ UNCHANGED <<fnVars, lookupVars, serverVars, reportVars, dvla_csv, icons, variant,
                   candidates, cand_i, best_score, best_icon, best_parts,
                   status, mpc, fleet, vi, results>>

FoldCensusRow ==
    /\ ai >= 1 /\ ai <= Len(dvla_csv)
    /\ LET row == dvla_csv[ai]
           key == CensusKey(row)
       IN  IF CensusAccepted(row)
           THEN IF ~Has(agg, key)
                THEN agg' = Put(agg, key,
                         [make |-> key[1], genmodel |-> key[2],
                          model |-> key[3], year |-> key[4],
                          fleet_estimate |-> latest_count(row), rows |-> 1])
                ELSE LET item == Get(agg, key)
                     IN  agg' = Put(agg, key,
                             [item EXCEPT
                                 !.fleet_estimate = item.fleet_estimate + latest_count(row),
                                 !.rows = item.rows + 1])
           ELSE UNCHANGED agg
    /\ ai' = ai + 1
    /\ UNCHANGED <<fnVars, lookupVars, serverVars, reportVars, dvla_csv, icons, variant,
                   candidates, cand_i, best_score, best_icon, best_parts,
                   status, mpc, fleet, vi, results>>

CensusRows == {
    [BodyType |-> <<"C","a","r","s">>, Make |-> <<"V","W">>, GenModel |-> <<"G","o","l","f">>,
     Model |-> <<"G","T","I">>, YearManufacture |-> <<"2","0","1","5">>, YearFirstUsed |-> <<>>,
     c2024 |-> <<"1","0">>, c2023 |-> <<"3">>],
    [BodyType |-> <<" ","c","a","r","s"," ">>, Make |-> <<" ","V","W">>, GenModel |-> <<"G","o","l","f"," ">>,
     Model |-> <<"G","T","I">>, YearManufacture |-> <<>>, YearFirstUsed |-> <<"2","0","1","5",".","0">>,
     c2024 |-> <<"7">>, c2023 |-> <<"[","x","]">>],
    [BodyType |-> <<"C","a","r","s">>, Make |-> <<"V","W">>, GenModel |-> <<"G","o","l","f">>,
     Model |-> <<"G","T","I">>, YearManufacture |-> <<"2","0","1","6">>, YearFirstUsed |-> <<"2","0","1","5">>,
     c2024 |-> <<"0">>, c2023 |-> <<"1">>],
    [BodyType |-> <<"C","a","r","s">>, Make |-> <<"V","W">>, GenModel |-> <<"G","o","l","f">>,
     Model |-> <<"G","T","I">>, YearManufacture |-> <<"2","0","1","5">>, YearFirstUsed |-> <<>>,
     c2024 |-> <<"-","5">>, c2023 |-> <<>>],
    [BodyType |-> <<"C","a","r","s">>, Make |-> <<"B","M","W">>, GenModel |-> <<>>,
     Model |-> <<"3","2","0","d">>, YearManufacture |-> <<>>, YearFirstUsed |-> <<>>,
     c2024 |-> <<"4">>, c2023 |-> <<"4">>],
    [BodyType |-> <<"M","o","t","o","r","c","y","c","l","e","s">>, Make |-> <<"B","M","W">>, GenModel |-> <<>>,
     Model |-> <<"3","2","0","d">>, YearManufacture |-> <<>>, YearFirstUsed |-> <<>>,
     c2024 |-> <<"9">>, c2023 |-> <<"9">>],
    [BodyType |-> <<"C","a","r","s">>, Make |-> <<" ">>, GenModel |-> <<"G","o","l","f">>,
     Model |-> <<"G","T","I">>, YearManufacture |-> <<"2","0","1","5">>, YearFirstUsed |-> <<>>,
     c2024 |-> <<"2">>, c2023 |-> <<"2">>],
    [BodyType |-> <<"C","a","r","s">>, Make |-> <<"V","W">>, GenModel |-> <<>>,
     Model |-> <<>>, YearManufacture |-> <<"2","0","1","5">>, YearFirstUsed |-> <<>>,
     c2024 |-> <<"6">>, c2023 |-> <<"6">>] }

InitAgg ==
    /\ fn = "" /\ arg = None /\ ret = None /\ LookupIdle /\ ReportIdle
    /\ ServerIdle
    /\ icons = <<>> /\ variant = None /\ candidates = <<>> /\ cand_i = 0
    /\ best_score = 0 /\ best_icon = None /\ best_parts = None
    /\ status = "" /\ mpc = "idle" /\ fleet = <<>> /\ vi = 0 /\ results = <<>>
    /\ dvla_csv \in WordSeqs(CensusRows, MaxCensus)
    /\ agg = <<>> /\ ai = 1

SpecAgg == InitAgg /\ [][FoldCensusRow]_vars

(***************************************************************************)
(* C12 After any sequence of census rows is folded there is exactly one    *)
(*     variant per distinct (make, genmodel, model, year) among the        *)
(*     accepted rows (body type cars, a make, a genmodel or a model); its  *)
(*     fleet_estimate is the sum over its rows of the 2024 and 2023        *)
(*     counts and its rows field the number of rows folded into it.        *)
(***************************************************************************)
FoldedRows == SubSeq(dvla_csv, 1, ai - 1)

RowsOfKey(key) ==
    LET Mine(row) == /\ Lower(normalize_space(row.BodyType)) = <<"c","a","r","s">>
                     /\ normalize_space(row.Make) # <<>>
                     /\ ~(normalize_space(row.GenModel) = <<>>
                            /\ normalize_space(row.Model) = <<>>)
                     /\ CensusKey(row) = key
    IN  SelectSeq(FoldedRows, Mine)

RECURSIVE SumCounts(_)
SumCounts(rows) ==
    IF rows = <<>> THEN 0
    ELSE parse_int_like(rows[1].c2024) + parse_int_like(rows[1].c2023)
            + SumCounts(Tail(rows))

C12_OneVariantPerKey ==
    /\ \A i, j \in 1..Len(agg) : agg[i][1] = agg[j][1] => i = j
    /\ \A i \in 1..Len(agg) :
          LET key == agg[i][1]
              item == agg[i][2]
          IN  /\ <<item.make, item.genmodel, item.model, item.year>> = key
              /\ RowsOfKey(key) # <<>>
              /\ item.fleet_estimate = SumCounts(RowsOfKey(key))
              /\ item.rows = Len(RowsOfKey(key))
    /\ \A k \in 1..Len(FoldedRows) :
          RowsOfKey(CensusKey(FoldedRows[k])) # <<>>
              => \E i \in 1..Len(agg) : agg[i][1] = CensusKey(FoldedRows[k])

\* three rows of one key, written differently, and a row of another key
C12_Witness ==
    /\ ai = 4 /\ Len(agg) = 1
    /\ agg[1][2].rows = 3 /\ agg[1][2].fleet_estimate = 33
    /\ agg[1][1] = <<<<"V","W">>, <<"G","o","l","f">>, <<"G","T","I">>, 2015>>

(***************************************************************************)
(* C13 While census rows are folded one by one, the fleet_estimate of      *)
(*     every existing variant never decreases: after a row is folded it    *)
(*     is >= its value before, each count cell parsed by parse_int_like.   *)
(***************************************************************************)
FleetEstimateGrows ==
    \A i \in 1..Len(agg) :
        \A j \in 1..Len(agg') :
            agg'[j][1] = agg[i][1]
                => agg'[j][2].fleet_estimate >= agg[i][2].fleet_estimate

C13_FleetEstimateMonotone == [][FleetEstimateGrows]_vars

(***************************************************************************)
(* C18 The final score of a (variant, icon) pair is the clamp to [0,1] of  *)
(*     0.42 make + 0.28 family + 0.15 genmodel + 0.10 model + 0.05 year,   *)
(*     minus 0.16 if the icon is race/special-flagged and the variant's    *)
(*     genmodel/model tokens are not race-like, minus 0.08 if both years   *)
(*     are known and differ by more than 20; the penalties come after the  *)
(*     weighted sum and before the clamp; the year sub-score is            *)
(*     max(0, 1 - |year difference| / 15) when both years are known and    *)
(*     nonzero and 0.25 otherwise.                                         *)
(***************************************************************************)
YearsKnown(v, icon) == v.year # 0 /\ icon.year # None /\ icon.year[1] # 0

YearDifference(v, icon) ==
    IF v.year >= icon.year[1] THEN v.year - icon.year[1] ELSE icon.year[1] - v.year

RacePenalty(v, icon) ==
    IF icon.race_like
         /\ ~looks_race_or_special(tokenize(v.genmodel) \o tokenize(v.model))
    THEN 16 * SubUnit ELSE 0

GapPenalty(v, icon) ==
    IF YearsKnown(v, icon) /\ YearDifference(v, icon) > 20 THEN 8 * SubUnit ELSE 0

C18_WeightedSumAndPenalties ==
    (fn = "score_variant_to_icon" /\ ret # None) =>
        LET v == arg.variant
            icon == arg.icon
            p == ret[1].parts
            sum == 42 * p.make + 28 * p.family + 15 * p.genmodel
                      + 10 * p.model + 5 * p.year
            raw == sum - RacePenalty(v, icon) - GapPenalty(v, icon)
        IN  /\ ret[1].score = IF raw < 0 THEN 0
                              ELSE IF raw > 100 * SubUnit THEN 100 * SubUnit
                              ELSE raw
            /\ YearsKnown(v, icon) =>
                  15 * p.year = IF YearDifference(v, icon) >= 15 THEN 0
                                ELSE SubUnit * (15 - YearDifference(v, icon))
            /\ ~YearsKnown(v, icon) => 4 * p.year = SubUnit

\* both penalties applied to a sum that stays positive, the year sub-score 0
C18_Witness ==
    /\ fn = "score_variant_to_icon" /\ ret # None
    /\ RacePenalty(arg.variant, arg.icon) > 0
    /\ GapPenalty(arg.variant, arg.icon) > 0
    /\ ret[1].parts.year = 0
    /\ ret[1].score > 0

(***************************************************************************)
(* SpecReport: main() of the matcher over fleets of several variants that  *)
(* differ in status, fleet_estimate and score, against the scenario's icon *)
(***************************************************************************)
MaxReport == 3

ReportVariants == {
    ScenarioVariant,
    [ScenarioVariant EXCEPT !.year = 1980],
    [ScenarioVariant EXCEPT !.genmodel = <<"G","o","l","f">>, !.model = <<"G","T","I">>,
                            !.fleet_estimate = 10],
    [ScenarioVariant EXCEPT !.genmodel = <<"G","o","l","f">>, !.model = <<"G","T","I">>,
                            !.year = 1980, !.fleet_estimate = 70],
    [ScenarioVariant EXCEPT !.genmodel = <<"A"," ","C","l","a","s","s">>, !.model = <<"A","1">>,
                            !.year = 1980, !.fleet_estimate = 70],
    [make |-> <<"R","o","v","e","r">>, genmodel |-> <<"G","o","l","f">>, model |-> <<"G","T","I">>,
     year |-> 2015, fleet_estimate |-> 10],
    [make |-> <<"V","W">>, genmodel |-> <<"G","o","l","f">>, model |-> <<"G","T","I">>,
     year |-> 0, fleet_estimate |-> 5000] }

InitReport ==
    /\ fn = "" /\ arg = None /\ ret = None /\ LookupIdle
    /\ ReportIdle /\ AggIdle /\ ServerIdle
    /\ icons = <<ScenarioIcon>>
    /\ fleet \in {f \in WordSeqs(ReportVariants, MaxReport) :
                     \A i, j \in 1..Len(f) :
                        VariantKey(f[i]) = VariantKey(f[j]) => i = j}
    /\ vi = 1 /\ results = <<>>
    /\ variant = None /\ candidates = <<>> /\ cand_i = 0
    /\ best_score = 0 /\ best_icon = None /\ best_parts = None
    /\ status = "" /\ mpc = "variant"

SpecReport == InitReport /\ [][NextMatch]_vars

(***************************************************************************)
(* C15 The result list of the report is sorted by (status, -fleet_estimate,*)
(*     score): results are grouped by status, within a status              *)
(*     fleet_estimate does not increase, and among equal status and equal  *)
(*     fleet_estimate the score does not decrease.                         *)
(***************************************************************************)
C15_ResultsSorted ==
    mpc = "done" =>
        LET rs == coverage_json[1].results
        IN  /\ rs = results
            /\ \A i, j \in 1..Len(rs) :
                  i < j =>
                    /\ StatusRank(rs[i].status) <= StatusRank(rs[j].status)
                    /\ \A k \in i..j :
                          rs[i].status = rs[j].status => rs[k].status = rs[i].status
                    /\ rs[i].status = rs[j].status =>
                          rs[i].fleet_estimate >= rs[j].fleet_estimate
                    /\ (rs[i].status = rs[j].status
                          /\ rs[i].fleet_estimate = rs[j].fleet_estimate) =>
                          rs[i].score <= rs[j].score

\* the sort moved results: two covered results of one fleet_estimate now in
\* ascending score, after a missing one that was appended last
C15_Witness ==
    /\ mpc = "done" /\ Len(results) = 3
    /\ fleet[1] = ScenarioVariant /\ fleet[2].year = 1980 /\ fleet[3].make = <<"R","o","v","e","r">>
    /\ results[1].status = "clearly_missing"
    /\ results[2].status = "covered" /\ results[3].status = "covered"
    /\ results[2].fleet_estimate = results[3].fleet_estimate
    /\ results[2].score < results[3].score
    /\ results[3].year = 2015

(***************************************************************************)
(* C16 The missing, weak and covered CSV rows partition the result list:   *)
(*     each result is in exactly one of them, the one of its status, in    *)
(*     the same relative order as in the sorted results, and the three     *)
(*     summary counts add up to total_variants (one result per variant).   *)
(***************************************************************************)
\* rows is results restricted to status st, order kept
IsStatusSlice(rows, rs, st) ==
    LET idx == {i \in 1..Len(rs) : rs[i].status = st}
    IN  /\ Len(rows) = Cardinality(idx)
        /\ \A k \in 1..Len(rows) :
              \E i \in idx : /\ rows[k] = rs[i]
                             /\ Cardinality({j \in idx : j < i}) = k - 1

SummaryCount(st) ==
    IF \E i \in 1..Len(coverage_json[1].summary) : coverage_json[1].summary[i][1] = st
    THEN coverage_json[1].summary[
             CHOOSE i \in 1..Len(coverage_json[1].summary) :
                 coverage_json[1].summary[i][1] = st][2]
    ELSE 0

C16_CsvPartition ==
    mpc = "done" =>
        /\ IsStatusSlice(missing[1], results, "clearly_missing")
        /\ IsStatusSlice(weak[1], results, "weak_match")
        /\ IsStatusSlice(covered[1], results, "covered")
        /\ Len(missing[1]) + Len(weak[1]) + Len(covered[1]) = Len(results)
        /\ \A i \in 1..Len(results) :
              results[i].status \in {"clearly_missing", "weak_match", "covered"}
        /\ SummaryCount("clearly_missing") = Len(missing[1])
        /\ SummaryCount("weak_match") = Len(weak[1])
        /\ SummaryCount("covered") = Len(covered[1])
        /\ SummaryCount("clearly_missing") + SummaryCount("weak_match")
              + SummaryCount("covered") = coverage_json[1].total_variants
        /\ coverage_json[1].total_variants = Len(fleet)

C16_Witness ==
    /\ mpc = "done" /\ Len(results) = 3
    /\ Len(missing[1]) = 1 /\ Len(weak[1]) = 1 /\ Len(covered[1]) = 1
    /\ results[1] = missing[1][1] /\ results[2] = covered[1][1]
    /\ results[3] = weak[1][1]

(***************************************************************************)
(* C14 A variant with no icon candidate at all (no icon shares its         *)
(*     canonical make, no icon's make tokens meet its canonical-make       *)
(*     tokens) is no error: its result has status clearly_missing, score 0 *)
(*     and empty best_icon_file / path / label; and whenever the candidate *)
(*     set is not empty the best_icon fields name one of the candidates.   *)
(***************************************************************************)
NoCandidateAtAll(v) ==
    \A i \in 1..Len(icons) :
        /\ icons[i].make_canonical # canonical_make(v.make)
        /\ SetOf(icons[i].make_tokens)
              \cap SetOf(tokenize(canonical_make(v.make))) = {}

C14_AbsenceIsNotAnError ==
    (mpc = "variant" /\ results # <<>>) =>
        LET r == results[Len(results)]
        IN  /\ /\ r.make = variant[1].make /\ r.genmodel = variant[1].genmodel
               /\ r.year = variant[1].year
            /\ NoCandidateAtAll(variant[1]) =>
                  /\ r.status = "clearly_missing" /\ r.score = 0
                  /\ r.best_icon_file = <<>> /\ r.best_icon_path = <<>>
                  /\ r.best_icon_label = <<>>
            /\ candidates # <<>> =>
                  \E k \in 1..Len(candidates) :
                      /\ r.best_icon_file = candidates[k].icon_file
                      /\ r.best_icon_path = candidates[k].icon_path
                      /\ r.best_icon_label = candidates[k].label

\* a catalog of two icons of other makes, and a result without an icon
C14_Witness ==
    /\ mpc = "variant" /\ results # <<>> /\ Len(icons) = 2
    /\ NoCandidateAtAll(variant[1])
    /\ results[Len(results)].status = "clearly_missing"
    /\ results[Len(results)].best_icon_file = <<>>

(***************************************************************************)
(* The match loop over catalogs that hold icons of one make twice, and     *)
(* icons of two makes that share a make token                              *)
(***************************************************************************)
SelectRaw == {
    [key |-> <<"m","e","r","c","e","d","e","s","_","e","_","c","l","a","s","s","_","2","0","1","5">>, has_png |-> TRUE,
     manufacturer |-> <<"M","e","r","c","e","d","e","s","-","B","e","n","z">>, model |-> <<"E","-","C","l","a","s","s">>,
     label |-> Some(<<"M","e","r","c","e","d","e","s","-","B","e","n","z"," ","E","-","C","l","a","s","s"," ","2","0","1","5">>), year |-> <<"2","0","1","5">>],
    [key |-> <<"m","e","r","c","e","d","e","s","_","e","_","c","l","a","s","s","_","2","0","1","5","_","e">>, has_png |-> TRUE,
     manufacturer |-> <<"M","e","r","c","e","d","e","s","-","B","e","n","z">>, model |-> <<"E","-","C","l","a","s","s">>,
     label |-> Some(<<"M","e","r","c","e","d","e","s","-","B","e","n","z"," ","E","-","C","l","a","s","s"," ","2","0","1","5">>), year |-> <<"2","0","1","5">>],
    [key |-> <<"m","e","r","c","e","d","e","s","_","a","m","g","_","g","t","3","_","1","6">>, has_png |-> TRUE,
     manufacturer |-> <<"M","e","r","c","e","d","e","s"," ","A","M","G">>, model |-> <<"A","M","G"," ","G","T","3">>,
     label |-> Some(<<"M","e","r","c","e","d","e","s","-","A","M","G"," ","G","T","3">>), year |-> <<"2","0","1","6">>],
    [key |-> <<"r","a","n","g","e","_","r","o","v","e","r","_","e","v","o","q","u","e","_","1","3">>, has_png |-> TRUE,
     manufacturer |-> <<" ","L","a","n","d"," "," ","R","o","v","e","r"," ">>,
     model |-> <<"R","a","n","g","e"," ","R","o","v","e","r"," ","E","v","o","q","u","e"," ","C","o","u","p","e"," ","D","y","n","a","m","i","c">>,
     label |-> Some(<<"L","a","n","d"," ","R","o","v","e","r"," ","R","a","n","g","e"," ","R","o","v","e","r"," ","E","v","o","q","u","e"," ","C","o","u","p","e"," ","D","y","n","a","m","i","c"," ","L","u","x"," ","P","a","c","k"," ","B","l","a","c","k"," ","D","e","s","i","g","n">>),
     year |-> <<"2","0","1","3",".","0">>],
    [key |-> <<"r","o","v","e","r","_","m","i","n","i","_","c","o","o","p","e","r","_","6","5">>, has_png |-> TRUE,
     manufacturer |-> <<"R","o","v","e","r">>, model |-> <<"M","i","n","i"," ","C","o","o","p","e","r">>,
     label |-> Some(<<"R","o","v","e","r"," ","M","i","n","i"," ","C","o","o","p","e","r"," ","'","6","5">>), year |-> <<"1","9","6","5">>] }

SelectCatalogs(n) ==
    {load_icon_catalog(c) : c \in RawCatalogsOf(SelectRaw, n)}

SelectVariants ==
    [make : {<<"M","e","r","c","e","d","e","s"," ","B","e","n","z">>, <<"R","o","v","e","r">>, <<"L","a","n","d"," ","R","o","v","e","r">>, <<"R","a","n","g","e">>},
     genmodel : {<<"E"," ","C","l","a","s","s">>},
     model : {<<"E","2","2","0">>},
     year : {2015, 0, 1980},
     fleet_estimate : {5000}]

InitSelect ==
    /\ fn = "" /\ arg = None /\ ret = None /\ LookupIdle
    /\ ReportIdle /\ AggIdle /\ ServerIdle
    /\ icons \in SelectCatalogs(MaxCatalog)
    /\ fleet \in {<<v>> : v \in SelectVariants}
    /\ vi = 1 /\ results = <<>>
    /\ variant = None /\ candidates = <<>> /\ cand_i = 0
    /\ best_score = 0 /\ best_icon = None /\ best_parts = None
    /\ status = "" /\ mpc = "variant"

SpecSelect == InitSelect /\ [][NextMatch]_vars

(***************************************************************************)
(* C19 Among the candidates of a variant the chosen best icon is the first *)
(*     candidate in iteration order that attains the maximum score: a      *)
(*     later candidate replaces the best only when its score is strictly   *)
(*     greater, so the first-seen candidate is kept on an exact tie; the   *)
(*     reported sub-scores are those of the chosen icon.                   *)
(***************************************************************************)
\* the scoring results of the first n candidates, in iteration order
RECURSIVE ScoredCandidates(_)
ScoredCandidates(n) ==
    IF n = 0 THEN <<>>
    ELSE Append(ScoredCandidates(n - 1),
                score_variant_to_icon(variant[1], candidates[n]))

\* the first index of sc that attains the maximum score
FirstBest(sc) ==
    CHOOSE k \in 1..Len(sc) :
        /\ \A j \in 1..Len(sc) : sc[j].score <= sc[k].score
        /\ \A j \in 1..(k - 1) : sc[j].score < sc[k].score

C19_FirstBestCandidateWins ==
    /\ (mpc = "score" /\ cand_i > 1) =>
          LET sc == ScoredCandidates(cand_i - 1)
              k == FirstBest(sc)
          IN  /\ best_icon = Some(candidates[k])
              /\ best_score = sc[k].score
              /\ best_parts = sc[k].parts
    /\ (mpc = "variant" /\ results # <<>> /\ candidates # <<>>) =>
          LET sc == ScoredCandidates(Len(candidates))
              k == FirstBest(sc)
              r == results[Len(results)]
          IN  /\ r.best_icon_file = candidates[k].icon_file
              /\ r.best_icon_path = candidates[k].icon_path
              /\ r.best_icon_label = candidates[k].label
              /\ r.match_make = Round4(sc[k].parts.make, SubUnit)
              /\ r.match_family = Round4(sc[k].parts.family, SubUnit)
              /\ r.match_genmodel = Round4(sc[k].parts.genmodel, SubUnit)
              /\ r.match_model = Round4(sc[k].parts.model, SubUnit)
              /\ r.match_year = Round4(sc[k].parts.year, SubUnit)

\* two distinct candidates tie at the maximum; the first one is reported
C19_Witness ==
    /\ mpc = "variant" /\ results # <<>> /\ Len(candidates) = 2
    /\ candidates[1] # candidates[2]
    /\ LET sc == ScoredCandidates(2)
       IN  sc[1].score = sc[2].score /\ sc[1].score > 0
    /\ results[Len(results)].best_icon_file = candidates[1].icon_file

\* a later candidate with a strictly greater score replaced the first
C19_WitnessReplaced ==
    /\ mpc = "variant" /\ results # <<>> /\ Len(candidates) = 2
    /\ LET sc == ScoredCandidates(2) IN sc[1].score < sc[2].score
    /\ results[Len(results)].best_icon_file = candidates[2].icon_file

(***************************************************************************)
(* C20 The candidate set of a variant is exactly the icons whose           *)
(*     make_canonical equals canonical_make(variant.make) when there are   *)
(*     any; only when there are none is it every icon whose make-token set *)
(*     meets the variant's canonical-make token set.  An icon of another   *)
(*     canonical make is never scored when an exact-make group exists.     *)
(***************************************************************************)
ExactGroup(v) ==
    {i \in 1..Len(icons) : icons[i].make_canonical = canonical_make(v.make)}

LooseGroup(v) ==
    {i \in 1..Len(icons) :
        SetOf(icons[i].make_tokens)
            \cap SetOf(tokenize(canonical_make(v.make))) # {}}

C20_CandidateSelection ==
    (mpc = "score") =>
        LET v == variant[1]
            group == IF ExactGroup(v) # {} THEN ExactGroup(v) ELSE LooseGroup(v)
        IN  /\ SetOf(candidates) = {icons[i] : i \in group}
            /\ Len(candidates) = Cardinality(group)
            /\ ExactGroup(v) # {} =>
                  \A k \in 1..Len(candidates) :
                      candidates[k].make_canonical = canonical_make(v.make)

\* an exact-make icon next to an icon of another make that shares a token
C20_Witness ==
    /\ mpc = "score" /\ Len(icons) = 2
    /\ ExactGroup(variant[1]) # {}
    /\ LooseGroup(variant[1]) \ ExactGroup(variant[1]) # {}
    /\ Len(candidates) = 1

\* the fallback: no exact-make icon, one that shares a make token
C20_WitnessFallback ==
    /\ mpc = "score" /\ ExactGroup(variant[1]) = {}
    /\ Len(candidates) = 1 /\ Len(icons) = 2

(***************************************************************************)
(* C21 When the fallback path yields a non-empty candidate set but every   *)
(*     candidate scores below 0.18, the variant is clearly_missing: on the *)
(*     fallback path the status is gated by the best score against the     *)
(*     thresholds, not by the mere presence of candidates.                 *)
(***************************************************************************)
AllBelow(sc, t) == \A k \in 1..Len(sc) : sc[k].score < t

C21_FallbackGatedByScore ==
    (/\ mpc = "variant" /\ results # <<>>
     /\ ExactGroup(variant[1]) = {} /\ candidates # <<>>) =>
        LET sc == ScoredCandidates(Len(candidates))
            r == results[Len(results)]
        IN  /\ AllBelow(sc, MISSING_THRESHOLD) => r.status = "clearly_missing"
            /\ r.status = "clearly_missing" => AllBelow(sc, MISSING_THRESHOLD)
            /\ r.status = "covered" <=> ~AllBelow(sc, WEAK_THRESHOLD)

\* a fallback candidate exists, scores under 0.18, and the variant is missing
C21_Witness ==
    /\ mpc = "variant" /\ results # <<>>
    /\ ExactGroup(variant[1]) = {} /\ candidates # <<>>
    /\ best_icon # None /\ best_score > 0 /\ best_score < MISSING_THRESHOLD
    /\ results[Len(results)].status = "clearly_missing"
    /\ results[Len(results)].best_icon_file # <<>>

\* a fallback candidate that scores 0.18 or more is a weak match
C21_WitnessWeak ==
    /\ mpc = "variant" /\ results # <<>>
    /\ ExactGroup(variant[1]) = {} /\ candidates # <<>>
    /\ results[Len(results)].status = "weak_match"

(***************************************************************************)
(* C26 A variant whose canonical make is non-empty and is shared by at     *)
(*     least one icon is never clearly_missing: every exact-make candidate *)
(*     has make sub-score 1, so even with both penalties (race 0.16, year  *)
(*     gap 0.08) the best score is at least 0.42 - 0.16 - 0.08 = 0.18 and  *)
(*     the status is weak_match or covered.                                *)
(***************************************************************************)
C26_ExactMakeNeverMissing ==
    (/\ mpc = "variant" /\ results # <<>>
     /\ canonical_make(variant[1].make) # <<>>
     /\ ExactGroup(variant[1]) # {}) =>
        LET sc == ScoredCandidates(Len(candidates))
            r == results[Len(results)]
        IN  /\ \A k \in 1..Len(sc) :
                  /\ sc[k].parts.make = SubUnit
                  /\ sc[k].score >= MISSING_THRESHOLD
            /\ best_score >= MISSING_THRESHOLD
            /\ r.status \in {"weak_match", "covered"}
            /\ r.match_make = 10000

\* the worst case: a race icon, a year gap over 20, a best score of just 0.18
C26_Witness ==
    /\ mpc = "variant" /\ results # <<>>
    /\ ExactGroup(variant[1]) # {}
    /\ best_icon # None /\ best_icon[1].race_like
    /\ best_score = MISSING_THRESHOLD
    /\ results[Len(results)].status = "weak_match"

(***************************************************************************)
(* The builder's run over rows of close weights: two icons proposed for    *)
(* one make and year, and a make whose only rows have no year              *)
(***************************************************************************)
SupportRows == {
    [best_icon_path |-> IconA, best_icon_label |-> <<"A">>, make |-> <<"V","W">>,
     score |-> <<"0",".","9">>, year |-> <<"2","0","1","5">>, fleet_estimate |-> <<"1","0">>],
    [best_icon_path |-> IconB, best_icon_label |-> <<"B">>, make |-> <<"V","W">>,
     score |-> <<"0",".","6","0">>, year |-> <<"2","0","1","5">>, fleet_estimate |-> <<"1","0">>],
    [best_icon_path |-> IconA, best_icon_label |-> <<"A">>,
     make |-> <<"M","e","r","c","e","d","e","s","-","B","e","n","z">>,
     score |-> <<"0",".","5","5">>, year |-> <<"0">>, fleet_estimate |-> <<"1","0">>] }

InitSupport ==
    /\ fn = "" /\ arg = None /\ ret = None /\ MainIdle
    /\ covered_csv \in {None} \cup {Some(rows) : rows \in WordSeqs(SupportRows, MaxRows)}
    /\ weak_csv \in {None} \cup {Some(rows) : rows \in WordSeqs(SupportRows, MaxRows)}
    /\ (IF covered_csv = None THEN 0 ELSE Len(covered_csv[1]))
         + (IF weak_csv = None THEN 0 ELSE Len(weak_csv[1])) <= MaxRows
    /\ by_make_year = <<>> /\ by_make_default = <<>>
    /\ rows_used = 0 /\ used_covered = 0 /\ used_weak = 0
    /\ cursor = 1 /\ lpc = "covered" /\ clock = 0 /\ out_json = <<>>

SpecSupport == InitSupport /\ [][Next]_vars

\* the accepted rows among the first n rows of a CSV (none of a missing one)
AcceptedPrefix(csv, min_score, n) ==
    IF csv = None THEN <<>>
    ELSE LET Ok(row) == Accepted(row, min_score)
         IN  SelectSeq(SubSeq(csv[1], 1, n), Ok)

AllOf(csv) == IF csv = None THEN 0 ELSE Len(csv[1])

\* the rows folded into the tables so far, in the order of folding
FoldedSoFar ==
    AcceptedPrefix(covered_csv, MIN_COVERED_SCORE,
                   IF lpc = "covered" THEN cursor - 1 ELSE AllOf(covered_csv))
    \o AcceptedPrefix(weak_csv, MIN_WEAK_SCORE,
                      IF lpc = "covered" THEN 0
                      ELSE IF lpc = "weak" THEN cursor - 1 ELSE AllOf(weak_csv))

\* the rows of FoldedSoFar folded into the node of a make, or of a make and year
RowsOfMake(make_key) ==
    LET Mine(row) == RowMakeKey(row) = make_key
    IN  SelectSeq(FoldedSoFar, Mine)

RowsOfMakeYear(make_key, year) ==
    LET Mine(row) == RowMakeKey(row) = make_key /\ RowYear(row) = year
    IN  SelectSeq(FoldedSoFar, Mine)

\* the summed row weight of the rows that propose the icon
RECURSIVE Support(_, _)
Support(rows, icon) ==
    IF rows = <<>> THEN 0
    ELSE (IF RowIconPath(rows[1]) = icon
          THEN RowWeight(RowFleet(rows[1]), RowScore(rows[1])) ELSE 0)
         + Support(Tail(rows), icon)

(***************************************************************************)
(* C22 The default icon of a make node or make+year node is decided by     *)
(*     cumulative weighted support: after folding any sequence of accepted *)
(*     rows into a node, the node's icon is one whose summed row weight    *)
(*     over that sequence is maximal among all icons proposed for the      *)
(*     node, not merely the icon of a single heaviest row.                 *)
(***************************************************************************)
MostSupported(node, rows) ==
    \A k \in 1..Len(rows) :
        Support(rows, RowIconPath(rows[k])) <= Support(rows, node.icon)

C22_CumulativeSupport ==
    /\ \A i \in 1..Len(by_make_default) :
          MostSupported(by_make_default[i][2], RowsOfMake(by_make_default[i][1]))
    /\ \A i \in 1..Len(by_make_year) :
          \A j \in 1..Len(by_make_year[i][2]) :
              MostSupported(by_make_year[i][2][j][2],
                            RowsOfMakeYear(by_make_year[i][1],
                                           by_make_year[i][2][j][1]))

(***************************************************************************)
(* C23 In every state reachable by folding accepted rows, every existing   *)
(*     per-make and per-year node has weight > 0 (at least 1 after its     *)
(*     first row), and avg_score(node) equals score_weight / weight;       *)
(*     avg_score returns 0 only for a node whose weight is <= 0.           *)
(***************************************************************************)
\* a is the quotient score_weight / weight, in 1/10000 to the nearest unit
IsQuotient(a, node) ==
    2 * Abs(LScoreOne * node.score_weight - node.weight * a) <= node.weight

NodeSound(node) ==
    /\ node.weight > 0
    /\ node.weight >= LScoreOne
    /\ IF node.score_weight = NaN
       THEN avg_score(node) = NaN
       ELSE /\ IsQuotient(avg_score(node), node)
            /\ avg_score(node) # 0
    /\ avg_score([node EXCEPT !.weight = 0]) = 0

AllNodes ==
    {by_make_default[i][2] : i \in 1..Len(by_make_default)}
        \cup UNION {{by_make_year[i][2][j][2] : j \in 1..Len(by_make_year[i][2])} :
                       i \in 1..Len(by_make_year)}

C23_NodesWeighAndAverage == \A node \in AllNodes : NodeSound(node)

\* a node that a heavier row took over (weight and score_weight restarted)
\* next to a node built by one row of the least weight 1
C23_Witness ==
    /\ lpc = "done"
    /\ \E node \in AllNodes :
          /\ node.icon = IconB /\ node.samples = 2
          /\ node.weight = 60 * LScoreOne /\ avg_score(node) = 6000
    /\ \E node \in AllNodes :
          node.samples = 1 /\ node.weight = LScoreOne /\ avg_score(node) = 5100

(***************************************************************************)
(* C27 A make appears in by_make if and only if its default node's average *)
(*     score is >= 0.52 and at least one accepted row of that make has a   *)
(*     nonzero year: finalization iterates over the per-year table only,   *)
(*     so a make whose accepted rows all have year 0 is omitted from       *)
(*     by_make even though its default node exists and passes the          *)
(*     threshold, while its rows are still counted in rows_used.           *)
(***************************************************************************)
\* score_weight / weight >= t / LScoreOne
AvgAtLeast(node, t) ==
    node.score_weight # NaN /\ node.score_weight >= t * node.weight

HasYearRow(make_key) ==
    \E k \in 1..Len(RowsOfMake(make_key)) : RowYear(RowsOfMake(make_key)[k]) # 0

C27_Witness ==
    /\ lpc = "done"
    /\ Len(RowsOfMake(<<"m","e","r","c","e","d","e","s">>)) = 1
    /\ AvgAtLeast(Get(by_make_default, <<"m","e","r","c","e","d","e","s">>), MIN_DEFAULT_SCORE)
    /\ ~Has(by_make_year, <<"m","e","r","c","e","d","e","s">>)
    /\ out_json[Len(out_json)].rows_used.covered = 2
    /\ out_json[Len(out_json)].make_count = 1

(***************************************************************************)
(* C28 After the lookup builder has consumed both CSVs, the sum of samples *)
(*     over all per-make default nodes equals rows_used.covered +          *)
(*     rows_used.weak, and for every make the sum of samples over its year *)
(*     nodes equals the number of its accepted rows with nonzero year      *)
(*     (hence is at most the make node's samples); leader flips reset      *)
(*     weight and score_weight but never samples.                          *)
(***************************************************************************)
RECURSIVE SumSamples(_)
SumSamples(nodes) ==
    IF nodes = <<>> THEN 0 ELSE nodes[1][2].samples + SumSamples(Tail(nodes))

\* the <<make key, year>> of each row, in order
RECURSIVE KeysOfRows(_)
KeysOfRows(rows) ==
    IF rows = <<>> THEN <<>>
    ELSE <<<<RowMakeKey(rows[1]), RowYear(rows[1])>>>> \o KeysOfRows(Tail(rows))

CountMake(keys, make_key) ==
    Cardinality({k \in 1..Len(keys) : keys[k][1] = make_key})

CountMakeYear(keys, make_key, year) ==
    Cardinality({k \in 1..Len(keys) : keys[k] = <<make_key, year>>})

CountMakeDated(keys, make_key) ==
    Cardinality({k \in 1..Len(keys) : keys[k][1] = make_key /\ keys[k][2] # 0})

C28_SamplesCountRows ==
    LET keys == KeysOfRows(FoldedSoFar)
    IN  /\ \A i \in 1..Len(by_make_default) :
              LET make == by_make_default[i][1]
                  dated == SumSamples(YearNodes(by_make_year, make))
              IN  /\ by_make_default[i][2].samples = CountMake(keys, make)
                  /\ dated = CountMakeDated(keys, make)
                  /\ dated <= by_make_default[i][2].samples
        /\ \A i \in 1..Len(by_make_year) :
              /\ Has(by_make_default, by_make_year[i][1])
              /\ \A j \in 1..Len(by_make_year[i][2]) :
                    by_make_year[i][2][j][2].samples
                        = CountMakeYear(keys, by_make_year[i][1],
                                        by_make_year[i][2][j][1])
        /\ lpc \in {"finalize", "done"} =>
              SumSamples(by_make_default) = used_covered + used_weak
        /\ lpc = "done" =>
              SumSamples(by_make_default)
                  = out_json[Len(out_json)].rows_used.covered
                      + out_json[Len(out_json)].rows_used.weak

\* three rows over both CSVs: two of one make, the later one taking the node
\* over (samples 2 in the make node and in its year node), and one row
\* without a year (samples 1 in its make node, no year node)
C28_Witness ==
    /\ lpc = "done" /\ used_covered = 2 /\ used_weak = 1
    /\ Len(by_make_default) = 2 /\ Len(by_make_year) = 1
    /\ \E i \in 1..2 :
          /\ by_make_default[i][2].samples = 2
          /\ by_make_default[i][2].icon = IconA
          /\ by_make_default[i][2].weight = 9 * LScoreOne
          /\ SumSamples(YearNodes(by_make_year, by_make_default[i][1])) = 2
    /\ \E i \in 1..2 :
          /\ by_make_default[i][2].samples = 1
          /\ ~Has(by_make_year, by_make_default[i][1])

(***************************************************************************)
(* The two canonicalizations of a make text: canonical_make of the matcher *)
(* and normalize_make_key of the lookup builder, applied to one text       *)
(***************************************************************************)
MaxMakeWords == 3

MakeVocab == { <<"A","s","t","o","n">>, <<"M","a","r","t","i","n">>, <<"L","a","g","o","n","d","a">>, <<"L","a","n","d">>, <<"R","o","v","e","r">>,
               <<"V","W">>, <<"M","e","r","c","e","d","e","s","-","B","e","n","z">> }
MakeExamples == { <<"V",".","W",".">>, <<" ","A","l","f","a"," "," ","R","o","m","e","o"," ">>, <<"C","i","t","r","o","é","n">>, <<"-","-">>,
                  <<"V","a","u","x","h","a","l","l">>, <<"R","o","l","l","s"," ","R","o","y","c","e"," ","M","o","t","o","r","s">> }
MakeTexts ==
    {Join(ws, <<" ">>) : ws \in WordSeqs(MakeVocab, MaxMakeWords)} \cup MakeExamples

InitMakeKey ==
    /\ fn \in {"canonical_make", "normalize_make_key"}
    /\ arg \in MakeTexts
    /\ ret = None /\ MainIdle /\ LookupIdle

CallCanonicalMake ==
    /\ fn = "canonical_make" /\ ret = None
    /\ ret' = Some(canonical_make(arg))
    /\ UNCHANGED <<fn, arg, mainVars, lookupVars>>

CallNormalizeMakeKey ==
    /\ fn = "normalize_make_key" /\ ret = None
    /\ ret' = Some(normalize_make_key(arg))
    /\ UNCHANGED <<fn, arg, mainVars, lookupVars>>

NextMakeKey == CallCanonicalMake \/ CallNormalizeMakeKey

SpecMakeKey == InitMakeKey /\ [][NextMakeKey]_vars

(***************************************************************************)
(* C24 The two canonicalizations differ only in output shape: for every    *)
(*     make text, normalize_make_key(text) equals canonical_make(text)     *)
(*     with its spaces removed, so two make strings the scorer groups      *)
(*     under one canonical make always share one lookup key and vice       *)
(*     versa.                                                              *)
(***************************************************************************)
WithoutSpaces(text) == LET NotSpace(c) == c # " " IN SelectSeq(text, NotSpace)

C24_SameKeyWithoutSpaces ==
    /\ (fn = "normalize_make_key" /\ ret # None) =>
          ret[1] = WithoutSpaces(canonical_make(arg))
    /\ (fn = "canonical_make" /\ ret # None) =>
          WithoutSpaces(ret[1]) = normalize_make_key(arg)

(***************************************************************************)
(* The pipeline: the matcher writes its CSVs (main of                      *)
(* crossref_dvla_vehicle_icons.py), then the lookup builder reads the      *)
(* covered and the weak-match CSV (main of                                 *)
(* build_dvla_vehicle_icon_lookup.py).  csv.DictWriter writes str(value)   *)
(* of each cell and csv.DictReader returns that text: a text cell comes    *)
(* back as it was, a number as its decimal numeral.                        *)
(***************************************************************************)
\* str(n) of an int
RECURSIVE DigitsOf(_)
DigitsOf(n) ==
    IF n < 10 THEN <<DigitChars[n + 1]>>
    ELSE DigitsOf(n \div 10) \o <<DigitChars[(n % 10) + 1]>>

FormatInt(n) == IF n < 0 THEN <<"-">> \o DigitsOf(0 - n) ELSE DigitsOf(n)

\* str(x) of a float x = n / 10000 in [0, 1]: the shortest numeral, with at
\* least one digit after the point
RECURSIVE StripZeros(_)
StripZeros(digits) ==
    IF Len(digits) > 1 /\ digits[Len(digits)] = "0"
    THEN StripZeros(SubSeq(digits, 1, Len(digits) - 1))
    ELSE digits

FormatScore(n) ==
    LET frac == n % 10000
        four == <<DigitChars[(frac \div 1000) + 1], DigitChars[((frac \div 100) % 10) + 1],
                  DigitChars[((frac \div 10) % 10) + 1], DigitChars[(frac % 10) + 1]>>
    IN  DigitsOf(n \div 10000) \o <<".">> \o StripZeros(four)

\* a result row as csv.DictReader returns it (the columns the builder reads)
CsvRowOf(r) ==
    [best_icon_path |-> r.best_icon_path,
     best_icon_label |-> r.best_icon_label,
     make |-> r.make,
     score |-> FormatScore(r.score),
     year |-> FormatInt(r.year),
     fleet_estimate |-> FormatInt(r.fleet_estimate)]

ReadCsv(rows) == [i \in 1..Len(rows) |-> CsvRowOf(rows[i])]

\* the builder is started after the matcher has written its files.  A score
\* cell of more than two decimals is read to its first two (safe_float of the
\* model): its comparisons with the two-decimal thresholds are those of the
\* code, the weight of its row that of the score cut to two decimals.
StartBuilder ==
    /\ mpc = "done" /\ lpc = "idle"
    /\ covered_csv' = Some(ReadCsv(covered[1]))
    /\ weak_csv' = Some(ReadCsv(weak[1]))
    /\ by_make_year' = <<>> /\ by_make_default' = <<>>
    /\ rows_used' = 0 /\ cursor' = 1
    /\ lpc' = "covered"
    /\ UNCHANGED <<fnVars, mainVars, used_covered, used_weak, clock, out_json>>

InitPipeline == InitReport

NextPipeline ==
    \/ StartVariant
    \/ ScoreCandidate
    \/ AppendResult
    \/ WriteReport
    \/ StartBuilder
    \/ ConsumeRow
    \/ ConsumeEnd
    \/ Finalize

SpecPipeline == InitPipeline /\ [][NextPipeline]_vars

(***************************************************************************)
(* C25 In the end-to-end pipeline no weak-match row ever contributes to    *)
(*     the lookup: every row the classifier labels weak_match has score    *)
(*     < 0.42, below the lookup builder's weak threshold 0.60, so for any  *)
(*     fleet and icon catalog rows_used.weak is 0 and every lookup node is *)
(*     built from covered rows with score >= 0.50 only.                    *)
(***************************************************************************)
C25_NoWeakRowInLookup ==
    /\ mpc = "done" =>
          \A k \in 1..Len(weak[1]) :
              /\ weak[1][k].status = "weak_match"
              /\ weak[1][k].score < 4200
              /\ FLess(safe_float(FormatScore(weak[1][k].score)), MIN_WEAK_SCORE)
    /\ lpc # "idle" =>
          LET from_covered ==
                  AcceptedPrefix(covered_csv, MIN_COVERED_SCORE,
                                 IF lpc = "covered" THEN cursor - 1
                                 ELSE AllOf(covered_csv))
          IN  /\ used_weak = 0
              /\ lpc = "weak" => rows_used = 0
              /\ FoldedSoFar = from_covered
              /\ SumSamples(by_make_default) = Len(from_covered)
              /\ \A k \in 1..Len(from_covered) :
                    /\ ScoreAtLeast(RowScore(from_covered[k]), MIN_COVERED_SCORE)
                    /\ \E j \in 1..Len(covered[1]) :
                          /\ CsvRowOf(covered[1][j]) = from_covered[k]
                          /\ covered[1][j].status = "covered"
                          /\ covered[1][j].score >= 5000
    /\ lpc = "done" => out_json[Len(out_json)].rows_used.weak = 0

\* a weak-match row that names an icon, a covered row under 0.50 and a
\* covered row over it: one row used, from the covered CSV
C25_Witness ==
    /\ lpc = "done"
    /\ Len(weak_csv[1]) = 1
    /\ StartsWith(RowIconPath(weak_csv[1][1]), ICON_PREFIX)
    /\ weak_csv[1][1].score = <<"0",".","3","4">>
    /\ Len(covered_csv[1]) = 2
    /\ \E k \in 1..2 : covered_csv[1][k].score = <<"0",".","4","7">>
    /\ out_json[Len(out_json)].rows_used = [covered |-> 1, weak |-> 0]
    /\ out_json[Len(out_json)].make_count = 1


(***************************************************************************)
(* dev_server.py: the request handler threads of the ThreadingHTTPServer   *)
(* and the two module-level caches they share                              *)
(***************************************************************************)
MaxThreads == 3
MaxStations == 2

Threads == 1..MaxThreads

\* a handler thread that has not received its request yet
IdleThread ==
    [pc |-> "idle", kind |-> "", items |-> <<>>, ret |-> None, via |-> "",
     token |-> <<>>, sent |-> <<>>, status |-> 0]

\* str.upper() on one character
ToUpperChar(c) ==
    LET i == IndexOf(LowerLetters, c)
    IN  IF i > 0 THEN UpperLetters[i] ELSE c

Upper(text) == [i \in 1..Len(text) |-> ToUpperChar(text[i])]

\* records of the upstream stations.json (a missing field is None, which
\* `or ""` turns into the empty text)
StationRecords ==
    {[crsCode |-> <<" ","k","g","x">>, stationName |-> <<"K","i","n","g","s"," ","X"," ">>,
      constituentCountry |-> <<"E","n","g","l","a","n","d">>, lat |-> 51, long |-> 0],
     [crsCode |-> <<"E","D","B">>, stationName |-> <<"W","a","v","e","r","l","e","y">>,
      constituentCountry |-> <<" ","S","c","o","t","l","a","n","d">>, lat |-> 55, long |-> -3],
     [crsCode |-> <<"L","O">>, stationName |-> <<"H","a","l","t">>,
      constituentCountry |-> None, lat |-> 52, long |-> 1],
     [crsCode |-> <<"P","A","D">>, stationName |-> <<" ">>,
      constituentCountry |-> <<"E","n","g","l","a","n","d">>, lat |-> 51, long |-> 0]}

\* what urlopen + json.loads can produce: an exception, a JSON value that
\* is not a list, or a list of records
StationResponses ==
    {[ok |-> FALSE, is_list |-> FALSE, rows |-> <<>>],
     [ok |-> TRUE, is_list |-> FALSE, rows |-> <<>>]}
    \cup {[ok |-> TRUE, is_list |-> TRUE, rows |-> rows] :
            rows \in WordSeqs(StationRecords, MaxStations)}

\* the body of the loop of _load_station_catalog for one record
StationItem(r) ==
    [crs |-> Upper(Strip(r.crsCode)),
     name |-> Strip(r.stationName),
     country |-> Lower(Strip(r.constituentCountry)),
     lat |-> r.lat, lon |-> r.long]

KeepStation(r) ==
    Len(Upper(Strip(r.crsCode))) = 3 /\ Strip(r.stationName) # <<>>

RECURSIVE ParseStations(_)
ParseStations(rows) ==
    IF rows = <<>> THEN <<>>
    ELSE IF KeepStation(rows[1])
         THEN <<StationItem(rows[1])>> \o ParseStations(Tail(rows))
         ELSE ParseStations(Tail(rows))

\* items as built by lines 106-120 from the decoded JSON
ItemsOf(resp) == IF resp.is_list THEN ParseStations(resp.rows) ELSE <<>>

\* everything that is not the dev server's
batchVars == <<fnVars, lookupVars, icons, variant, candidates, cand_i,
               best_score, best_icon, best_parts, status, mpc, fleet, vi,
               results, reportVars, aggVars>>

\* do_GET for /nre/stations reaches the call of _load_station_catalog
StationsRequest(t) ==
    /\ thr[t].pc = "idle"
    /\ thr' = [thr EXCEPT ![t] = [@ EXCEPT !.pc = "check", !.kind = "stations"]]
    /\ UNCHANGED <<batchVars, station_loaded, station_items, raildata_token,
                   env_token, env_creds, upstream_log>>

\* line 99: if _station_catalog_cache["loaded"]:
LoadCheckLoaded(t) ==
    /\ thr[t].pc = "check"
    /\ thr' = [thr EXCEPT ![t] = [@ EXCEPT !.pc =
                  IF station_loaded THEN "cached" ELSE "fetch"]]
    /\ UNCHANGED <<batchVars, station_loaded, station_items, raildata_token,
                   env_token, env_creds, upstream_log>>

\* line 100: return _station_catalog_cache["items"]
LoadReturnCached(t) ==
    /\ thr[t].pc = "cached"
    /\ thr' = [thr EXCEPT ![t] = [@ EXCEPT !.pc = "done", !.via = "cache",
                  !.ret = Some(station_items), !.status = 200]]
    /\ UNCHANGED <<batchVars, station_loaded, station_items, raildata_token,
                   env_token, env_creds, upstream_log>>

\* lines 101-120: the upstream fetch and the parse, local to the thread; an
\* exception leaves the function (the handler answers 502)
LoadFetch(t) ==
    /\ thr[t].pc = "fetch"
    /\ \E resp \in StationResponses :
         /\ upstream_log' = Append(upstream_log,
                [url |-> "stations", ok |-> resp.ok, items |-> ItemsOf(resp)])
         /\ thr' = [thr EXCEPT ![t] =
                IF resp.ok
                THEN [@ EXCEPT !.pc = "set_loaded", !.items = ItemsOf(resp)]
                ELSE [@ EXCEPT !.pc = "done", !.via = "error", !.status = 502]]
    /\ UNCHANGED <<batchVars, station_loaded, station_items, raildata_token,
                   env_token, env_creds>>

\* line 121: _station_catalog_cache["loaded"] = True
LoadSetLoaded(t) ==
    /\ thr[t].pc = "set_loaded"
    /\ station_loaded' = TRUE
    /\ thr' = [thr EXCEPT ![t] = [@ EXCEPT !.pc = "set_items"]]
    /\ UNCHANGED <<batchVars, station_items, raildata_token, env_token,
                   env_creds, upstream_log>>

\* lines 122-123: _station_catalog_cache["items"] = items; return items
LoadSetItems(t) ==
    /\ thr[t].pc = "set_items"
    /\ station_items' = thr[t].items
    /\ thr' = [thr EXCEPT ![t] = [@ EXCEPT !.pc = "done", !.via = "fetch",
                  !.ret = Some(thr[t].items), !.status = 200]]
    /\ UNCHANGED <<batchVars, station_loaded, raildata_token, env_token,
                   env_creds, upstream_log>>

InitStations ==
    /\ fn = "" /\ arg = None /\ ret = None /\ MatcherIdle /\ LookupIdle
    /\ station_loaded = FALSE /\ station_items = <<>>
    /\ raildata_token = <<>> /\ env_token = <<>> /\ env_creds = FALSE
    /\ thr = [t \in Threads |-> IdleThread]
    /\ upstream_log = <<>>

NextStations ==
    \E t \in Threads :
        \/ StationsRequest(t)
        \/ LoadCheckLoaded(t)
        \/ LoadReturnCached(t)
        \/ LoadFetch(t)
        \/ LoadSetLoaded(t)
        \/ LoadSetItems(t)

SpecStations == InitStations /\ [][NextStations]_vars

\* the parsed lists of the upstream fetches that have finished
FinishedFetches ==
    {upstream_log[i].items : i \in {j \in 1..Len(upstream_log) :
        upstream_log[j].url = "stations" /\ upstream_log[j].ok}}

\* C29: a handler that saw the station cache loaded gets the complete parsed
\* list of a finished upstream fetch, never the initial empty list, under
\* every interleaving; and the cache is loaded only after a fetch succeeded,
\* so a failed fetch leaves it unloaded for a later request to fetch again
C29_LoadedCacheIsComplete ==
    /\ \A t \in Threads :
         thr[t].pc = "done" /\ thr[t].via = "cache"
            => thr[t].ret[1] \in FinishedFetches
    /\ station_loaded => FinishedFetches # {}

(***************************************************************************)
(* dev_server.py: the Rail Data proxy and its authentication token         *)
(***************************************************************************)
MaxClients == 2

Clients == 1..MaxClients

\* the values RAILDATA_AUTH_TOKEN can have when the server starts
EnvTokens == {<<>>, <<" ">>, <<" ","e","n","v","t","o","k"," ">>}

\* line 251: direct = os.environ.get("RAILDATA_AUTH_TOKEN", "").strip()
Direct == Strip(env_token)

\* lines 264-269: the attempts list (path, name of the user field)
AuthAttempts ==
    <<[path |-> "/api/v1/token", field |-> "username"],
      [path |-> "/api/v1/authenticate", field |-> "username"],
      [path |-> "/api/v1/token", field |-> "email"],
      [path |-> "/api/v1/authenticate", field |-> "email"]>>

\* what one authentication POST can produce: an exception (HTTPError or
\* other), or the decoded JSON object (a missing field is None)
AuthResponses ==
    {[ok |-> FALSE, token |-> None, authToken |-> None,
      authenticationToken |-> None, accessToken |-> None],
     [ok |-> TRUE, token |-> None, authToken |-> None,
      authenticationToken |-> None, accessToken |-> None],
     [ok |-> TRUE, token |-> <<"t","o","k","A">>, authToken |-> None,
      authenticationToken |-> None, accessToken |-> None],
     [ok |-> TRUE, token |-> None, authToken |-> None,
      authenticationToken |-> <<" ","t","o","k","B"," ">>, accessToken |-> <<"t","o","k","A">>],
     [ok |-> TRUE, token |-> <<" ">>, authToken |-> <<"t","o","k","A">>,
      authenticationToken |-> None, accessToken |-> None]}

\* lines 278-284: the first truthy of the four fields, stripped
TokenOf(data) ==
    Strip(IF data.token # <<>> THEN data.token
          ELSE IF data.authToken # <<>> THEN data.authToken
          ELSE IF data.authenticationToken # <<>> THEN data.authenticationToken
          ELSE data.accessToken)

\* outcomes of the proxied request: a 2xx answer, an HTTPError with its
\* code, or another exception (0), which the handler answers with 502
ProxyOutcomes == {200, 401, 403, 0}

\* clears the cached token on every upstream error of a token-mode request
ClearsTokenOnAnyError(code, mode, direct) ==
    code # 200 /\ mode = "token"

\* line 243: the condition under which the handler clears the cached token
ClearsToken(code, mode, direct) ==
    code = 401 /\ mode = "token" /\ direct = <<>>

\* do_GET reaches _proxy_raildata_url with an allowed URL (lines 706-809)
RailRequest(t) ==
    /\ thr[t].pc = "idle"
    /\ \E mode \in {"token", "apikey"} :
         thr' = [thr EXCEPT ![t] = [@ EXCEPT !.kind = mode,
                    !.pc = IF mode = "token" THEN "get_token" ELSE "proxy"]]
    /\ UNCHANGED <<batchVars, station_loaded, station_items, raildata_token,
                   env_token, env_creds, upstream_log>>

\* _get_raildata_auth_token up to the attempts loop (lines 251-262), and
\* the error answer of _proxy_raildata_url (lines 212-215)
GetToken(t) ==
    /\ thr[t].pc = "get_token"
    /\ thr' = [thr EXCEPT ![t] =
          IF Direct # <<>>
          THEN [@ EXCEPT !.pc = "proxy", !.token = Direct, !.via = "env"]
          ELSE IF Strip(raildata_token) # <<>>
          THEN [@ EXCEPT !.pc = "proxy", !.token = Strip(raildata_token),
                         !.via = "cache"]
          ELSE IF ~env_creds
          THEN [@ EXCEPT !.pc = "done", !.via = "error", !.status = 500]
          ELSE [@ EXCEPT !.pc = "auth"]]
    /\ UNCHANGED <<batchVars, station_loaded, station_items, raildata_token,
                   env_token, env_creds, upstream_log>>

\* one iteration of the attempts loop (lines 270-291), and after the last
\* one the error return of line 292
Authenticate(t) ==
    /\ thr[t].pc = "auth"
    /\ \E resp \in AuthResponses :
         LET k == Len(thr[t].sent) + 1
             sent == Append(thr[t].sent, AuthAttempts[k])
             token == IF resp.ok THEN TokenOf(resp) ELSE <<>>
         IN  IF token # <<>>
             THEN /\ raildata_token' = token
                  /\ thr' = [thr EXCEPT ![t] = [@ EXCEPT !.pc = "proxy",
                                !.sent = sent, !.token = token, !.via = "auth"]]
             ELSE /\ raildata_token' = raildata_token
                  /\ thr' = [thr EXCEPT ![t] =
                        IF k < Len(AuthAttempts)
                        THEN [@ EXCEPT !.sent = sent]
                        ELSE [@ EXCEPT !.sent = sent, !.pc = "done",
                                       !.via = "error", !.status = 500]]
    /\ UNCHANGED <<batchVars, station_loaded, station_items, env_token,
                   env_creds, upstream_log>>

\* the upstream request and the answer to the client (lines 231-248)
ProxyUpstream(t) ==
    /\ thr[t].pc = "proxy"
    /\ \E code \in ProxyOutcomes :
         /\ upstream_log' = Append(upstream_log,
                [url |-> "raildata", mode |-> thr[t].kind,
                 token |-> thr[t].token, code |-> code])
         /\ raildata_token' =
                IF ClearsToken(code, thr[t].kind, Direct)
                THEN <<>> ELSE raildata_token
         /\ thr' = [thr EXCEPT ![t] = [@ EXCEPT !.pc = "done",
                       !.status = IF code = 0 THEN 502 ELSE code]]
    /\ UNCHANGED <<batchVars, station_loaded, station_items, env_token,
                   env_creds>>

InitRail ==
    /\ fn = "" /\ arg = None /\ ret = None /\ MatcherIdle /\ LookupIdle
    /\ station_loaded = FALSE /\ station_items = <<>>
    /\ raildata_token = <<>>
    /\ env_token \in EnvTokens /\ env_creds \in BOOLEAN
    /\ thr = [t \in Clients |-> IdleThread]
    /\ upstream_log = <<>>

NextRail ==
    \E t \in Clients :
        \/ RailRequest(t)
        \/ GetToken(t)
        \/ Authenticate(t)
        \/ ProxyUpstream(t)

SpecRail == InitRail /\ [][NextRail]_vars

\* the step of client t that ends the token lookup of its request
LooksUpToken(t) == thr[t].pc = "get_token" /\ thr'[t] # thr[t]

\* RAILDATA_AUTH_TOKEN is set: it is the token used, the cache is left alone
UsesEnvToken(t) ==
    /\ thr'[t].pc = "proxy" /\ thr'[t].token = Direct /\ thr'[t].sent = <<>>
    /\ raildata_token' = raildata_token

\* a non-empty cached token is reused without authenticating
ReusesCachedToken(t) ==
    /\ thr'[t].pc = "proxy" /\ thr'[t].token = Strip(raildata_token)
    /\ thr'[t].sent = <<>>
    /\ raildata_token' = raildata_token

\* the request goes on to the authentication attempts
StartsAttempts(t) ==
    thr'[t].pc = "auth" /\ thr'[t].sent = <<>> /\ thr'[t].token = <<>>

\* the request is answered with an error, nothing sent and nothing stored
FailsWithoutAttempt(t) ==
    /\ thr'[t].pc = "done" /\ thr'[t].status = 500 /\ thr'[t].sent = <<>>
    /\ raildata_token' = raildata_token

\* one step of the attempts: the next attempt of the list, in order, is
\* sent; a non-empty token is cached and used, and anything else stores
\* nothing and goes on to the next attempt or, after the fourth, fails
AttemptsInOrder(t) ==
    thr[t].pc = "auth" /\ thr'[t] # thr[t] =>
        LET k == Len(thr[t].sent) + 1
        IN  /\ k <= 4
            /\ thr'[t].sent = Append(thr[t].sent,
                  <<[path |-> "/api/v1/token", field |-> "username"],
                    [path |-> "/api/v1/authenticate", field |-> "username"],
                    [path |-> "/api/v1/token", field |-> "email"],
                    [path |-> "/api/v1/authenticate", field |-> "email"]>>[k])
            /\ \/ /\ thr'[t].pc = "proxy" /\ thr'[t].token # <<>>
                  /\ Strip(thr'[t].token) = thr'[t].token
                  /\ raildata_token' = thr'[t].token
               \/ /\ thr'[t].pc = "auth" /\ k < 4
                  /\ raildata_token' = raildata_token
               \/ /\ thr'[t].pc = "done" /\ thr'[t].status = 500 /\ k = 4
                  /\ raildata_token' = raildata_token

\* the proxied request carries the token that was looked up; a 401 on a
\* token-mode request without RAILDATA_AUTH_TOKEN clears the cache, and
\* nothing else does
ClearsOnlyOn401(t) ==
    thr[t].pc = "proxy" /\ thr'[t] # thr[t] =>
        /\ thr'[t].pc = "done"
        /\ upstream_log'[Len(upstream_log')].token = thr[t].token
        /\ raildata_token' =
              IF thr'[t].status = 401 /\ thr[t].kind = "token" /\ Direct = <<>>
              THEN <<>> ELSE raildata_token

\* C30 as stated: with RAILDATA_AUTH_TOKEN set it is the token used and the
\* cache never changes; otherwise a non-empty cached token is reused without
\* authenticating, an empty cache always starts the four attempts, in order,
\* the first non-empty token is cached, a failed attempt stores nothing, and
\* a 401 on a token-mode request clears the cache
C30_EmptyCacheAlwaysAuthenticates ==
    [][\A t \in Clients :
         /\ LooksUpToken(t) =>
               IF Direct # <<>> THEN UsesEnvToken(t)
               ELSE IF Strip(raildata_token) # <<>> THEN ReusesCachedToken(t)
               ELSE StartsAttempts(t)
         /\ AttemptsInOrder(t)
         /\ ClearsOnlyOn401(t)
         /\ Direct # <<>> => raildata_token' = raildata_token]_vars

\* C30: the same lifecycle, where an empty cache starts the four attempts
\* only if RAILDATA_USERNAME and RAILDATA_PASSWORD are both set; without
\* them the request fails with no attempt made and no token stored
C30_TokenLifecycle ==
    [][\A t \in Clients :
         /\ LooksUpToken(t) =>
               IF Direct # <<>> THEN UsesEnvToken(t)
               ELSE IF Strip(raildata_token) # <<>> THEN ReusesCachedToken(t)
               ELSE IF env_creds THEN StartsAttempts(t)
               ELSE FailsWithoutAttempt(t)
         /\ AttemptsInOrder(t)
         /\ ClearsOnlyOn401(t)
         /\ Direct # <<>> => raildata_token' = raildata_token]_vars

\* one request authenticated at its third attempt and cached the token,
\* the other reused it without authenticating and got a 401, which cleared
\* the cache
C30_Witness ==
    /\ Direct = <<>> /\ raildata_token = <<>>
    /\ \E t, u \in Clients :
         /\ thr[t].pc = "done" /\ thr[t].via = "auth" /\ Len(thr[t].sent) = 3
         /\ thr[t].status = 200
         /\ thr[u].pc = "done" /\ thr[u].via = "cache" /\ thr[u].sent = <<>>
         /\ thr[u].token = thr[t].token /\ thr[u].status = 401

\* RAILDATA_AUTH_TOKEN set: a 401 leaves the (empty) cache alone and the
\* next request uses the same token
C30_WitnessEnv ==
    /\ Direct # <<>> /\ raildata_token = <<>>
    /\ \A t \in Clients :
         thr[t].pc = "done" /\ thr[t].kind = "token" /\ thr[t].token = Direct
    /\ \E t \in Clients : thr[t].status = 401
====
